---- MODULE Spec2Model ----
(***************************************************************************)
(* Model of the cambrionix-serial command line API: the serial transport   *)
(* (terminal/connection.py), the serial CLI (terminal/cli.py), the         *)
(* Cambrionix CLI and state parser (entities/cli.py), the port registry    *)
(* (entities/hub.py), the system snapshot (entities/system.py) and the     *)
(* command dispatcher (cambrionix.py).                                     *)
(*                                                                         *)
(* Text is a sequence of atoms.  An atom is either one separator character *)
(* (CR, LF, space, comma) or a maximal run of other characters ("state",   *)
(* "0946", ">>").  Everything the code does with text (split, strip, join, *)
(* substring search, suffix test) is computed on these sequences.          *)
(***************************************************************************)
EXTENDS Integers, Sequences, FiniteSets, TLC

VARIABLES
    newline,          \* SerialConnection._newline (= SerialCli._default_enter)
    response_return,  \* SerialCli._response_return
    defaults,         \* SerialConnection._defaults, the pyserial settings
    serial_speed,     \* CambrionixCli._serial_speed, the rate behind the speed name
    group,            \* System._group of the system snapshot
    conn,             \* SerialConnection._conn: [present, is_open, timeout], the
                      \* serial object and the read timeout it was made with
    fd,               \* the OS handle behind the pyserial object
    devPresent,       \* the device node exists and can be opened
    inbuf,            \* incoming serial buffer of the open handle
    result,           \* the call that just returned: its name, argument, outcome
    pc,               \* position of the dispatcher inside cbrxcommand's wrapper
    cur,              \* the dispatcher call in progress
    log,              \* trace of the current call: the I/O attempted on the
                      \* serial object and the steps of the wrapper, in order
    ports,            \* UsbHub._ports, the port registry
    life              \* history: the last lifecycle call that succeeded, and
                      \* whether an open has succeeded after a close

vars == <<newline, response_return, defaults, serial_speed, group, conn, fd,
          devPresent, inbuf, log, result, pc, cur, ports, life>>

cfgVars == <<newline, response_return, defaults, serial_speed, group>>
dispVars == <<pc, cur, ports>>

----------------------------------------------------------------------------
(* Text atoms and helpers (Python str operations)                          *)

CR == "CR"
LF == "LF"
SP == " "
COMMA == ","

\* LineBreaks, terminal/entities.py
LineBreaks == {<<LF>>, <<CR>>, <<CR, LF>>}

\* str.strip() with no argument strips these
Whitespace == {CR, LF, SP}

\* 'Device not configured', the text the dispatcher looks for
DNC == "Device not configured"

\* sub in s
Contains(s, sub) ==
    \/ Len(sub) = 0
    \/ \E i \in 1..(Len(s) - Len(sub) + 1) : SubSeq(s, i, i + Len(sub) - 1) = sub

\* s.endswith(sub)
EndsWith(s, sub) ==
    /\ Len(sub) <= Len(s)
    /\ SubSeq(s, Len(s) - Len(sub) + 1, Len(s)) = sub

\* s.find(sub) + 1, 0 when absent (sub not empty)
Find(s, sub) ==
    LET hits == {i \in 1..(Len(s) - Len(sub) + 1) : SubSeq(s, i, i + Len(sub) - 1) = sub}
    IN  IF hits = {} THEN 0 ELSE CHOOSE i \in hits : \A j \in hits : i <= j

----------------------------------------------------------------------------
(* Outcomes: a call either returns a value or raises                        *)

\* Speed.slow and Speed.fast, entities/cli.py
SLOW == 115200
FAST == 1000000

\* _conn = None
NoConn == [present |-> FALSE, is_open |-> FALSE,
           timeout |-> [kind |-> "none", num |-> 0, text |-> ""]]

\* the transport as the operations below see and change it; io is the trace
World == [conn |-> conn, fd |-> fd, inbuf |-> inbuf, io |-> log]

Returned(w, val) ==
    [w |-> w, ok |-> TRUE, type |-> "", msg |-> <<>>, val |-> val]

Raised(w, type, msg) ==
    [w |-> w, ok |-> FALSE, type |-> type, msg |-> msg, val |-> <<>>]

\* terminal/exceptions.py: SerialNoMatchError is a SerialConnectionError
IsSerialConnectionError(type) ==
    type \in {"SerialConnectionError", "SerialNoMatchError"}

NoOpenMsg == <<"No Serial connection open">>
AlreadyOpenMsg == <<"Serial connection is already open to:", "port">>
CouldNotOpenMsg == <<"could not open port">>

----------------------------------------------------------------------------
(* Python values of the settings, and type(default)(value)                  *)

\* a value: its type, its number (floats in hundredths) and its text
PInt(n) == [kind |-> "int", num |-> n, text |-> ""]
PFloat(hundredths) == [kind |-> "float", num |-> hundredths, text |-> ""]
PStr(t) == [kind |-> "str", num |-> 0, text |-> t]
PBool(b) == [kind |-> "bool", num |-> IF b THEN 1 ELSE 0, text |-> ""]

\* strings int() accepts, with their values; float() accepts these as well
IntText == [t \in {"115200", "2"} |-> IF t = "2" THEN 2 ELSE 115200]

\* further strings float() accepts, in hundredths
FloatText == [t \in {"0.01", "0.1"} |-> IF t = "0.1" THEN 10 ELSE 1]

\* str(value) for the numbers the model formats
NumText(v) ==
    CASE v = PFloat(100) -> "1.0"
      [] v = PFloat(200) -> "2.0"
      [] v = PFloat(1) -> "0.01"
      [] v = PFloat(10) -> "0.1"
      [] v = PFloat(0) -> "0.0"
      [] v = PInt(1) -> "1"
      [] v = PInt(2) -> "2"
      [] v = PBool(TRUE) -> "True"
      [] v = PBool(FALSE) -> "False"
      [] OTHER -> "number"

\* value_type(value): the converted value, or the ValueError int() and float()
\* raise on text that is not a number
Coerce(kind, v) ==
    CASE kind = "int" ->
            IF v.kind = "str"
            THEN IF v.text \in DOMAIN IntText
                 THEN [ok |-> TRUE, val |-> PInt(IntText[v.text])]
                 ELSE [ok |-> FALSE, val |-> v]
            ELSE IF v.kind = "float" THEN [ok |-> TRUE, val |-> PInt(v.num \div 100)]
            ELSE [ok |-> TRUE, val |-> PInt(v.num)]
      [] kind = "float" ->
            IF v.kind = "str"
            THEN IF v.text \in DOMAIN IntText
                 THEN [ok |-> TRUE, val |-> PFloat(100 * IntText[v.text])]
                 ELSE IF v.text \in DOMAIN FloatText
                 THEN [ok |-> TRUE, val |-> PFloat(FloatText[v.text])]
                 ELSE [ok |-> FALSE, val |-> v]
            ELSE IF v.kind = "float" THEN [ok |-> TRUE, val |-> v]
            ELSE [ok |-> TRUE, val |-> PFloat(100 * v.num)]
      [] kind = "bool" ->
            [ok |-> TRUE, val |-> PBool(IF v.kind = "str" THEN v.text # "" ELSE v.num # 0)]
      [] OTHER ->
            [ok |-> TRUE, val |-> IF v.kind = "str" THEN v ELSE PStr(NumText(v))]

\* DEFAULT_SETTINGS: serial.SerialBase(...).get_settings(), the keys the model keeps
DEFAULT_SETTINGS ==
    [k \in {"baudrate", "parity", "xonxoff", "timeout", "write_timeout",
            "inter_byte_timeout"} |->
        CASE k = "baudrate" -> PInt(9600)
          [] k = "parity" -> PStr("N")
          [] k = "xonxoff" -> PBool(FALSE)
          [] k = "timeout" -> PFloat(100)
          [] k = "write_timeout" -> PFloat(100)
          [] k = "inter_byte_timeout" -> PFloat(0)]

\* one pair of params.items()
Param(key, value) == [key |-> key, value |-> value]

\* the for loop of set_default_parameters from item i on
RECURSIVE UpdateDefaults(_, _, _)
UpdateDefaults(d, params, i) ==
    IF i > Len(params) THEN [ok |-> TRUE, defaults |-> d]
    ELSE LET key == params[i].key
         IN  IF key \in DOMAIN d
             THEN LET c == Coerce(d[key].kind, params[i].value)
                  IN  IF c.ok
                      THEN UpdateDefaults([d EXCEPT ![key] = c.val], params, i + 1)
                      ELSE [ok |-> FALSE, defaults |-> d]
             ELSE UpdateDefaults(d, params, i + 1)

\* variant: set_default_parameters that returns the dictionary it updates
SetDefaultParametersAlias(d, params) ==
    LET updated == UpdateDefaults(d, params, 1)
    IN  [ok |-> updated.ok, type |-> IF updated.ok THEN "" ELSE "ValueError",
         val |-> updated.defaults, defaults |-> updated.defaults]

\* set_default_parameters(params): what it returns and the settings it leaves
SetDefaultParameters(d, params) ==
    LET prev_value == d
        updated == UpdateDefaults(d, params, 1)
    IN  [ok |-> updated.ok, type |-> IF updated.ok THEN "" ELSE "ValueError",
         val |-> prev_value, defaults |-> updated.defaults]

\* reset_default_parameters()
ResetDefaultParameters(d) == DEFAULT_SETTINGS

----------------------------------------------------------------------------
(* SerialNoMatchError, terminal/exceptions.py                               *)

\* SerialNoMatchError._get_message
NoMatchMsg(expected, timeout, output) ==
    <<"No match found for">> \o expected \o <<"in", NumText(timeout), "timeout period.">>
        \o (IF output # <<>> THEN <<"Output:">> \o output ELSE <<>>)

\* SerialNoMatchError(expected, timeout, output)
NoMatchError(w, expected, timeout, output) ==
    [w |-> w, ok |-> FALSE, type |-> "SerialNoMatchError",
     msg |-> NoMatchMsg(expected, timeout, output),
     val |-> [expected |-> expected, timeout |-> timeout, output |-> output]]

----------------------------------------------------------------------------
(* pyserial object behind SerialConnection._conn                            *)

\* message of the SerialException an I/O call raises on a handle that is not alive
FdErrMsg(f) ==
    CASE f = "dnc" -> <<"[Errno 6]", DNC>>
      [] f = "eio" -> <<"[Errno 5]", "Input/output error">>
      [] OTHER -> <<"Attempting to use a port that is not open">>

\* an I/O call on the serial object: its argument, whether it returned, and
\* what it read
IoRead(op, data, done, out) ==
    [op |-> op, data |-> data, done |-> done, n |-> 0, out |-> out]

IoEvent(op, data, done) == IoRead(op, data, done, <<>>)

\* serial.Serial.write(data): the device answers with reply
SerialWrite(w, data, reply) ==
    IF w.fd = "alive"
    THEN Returned([w EXCEPT !.io = Append(@, IoEvent("write", data, TRUE)),
                            !.inbuf = @ \o reply], <<>>)
    ELSE Raised([w EXCEPT !.io = Append(@, IoEvent("write", data, FALSE))],
                "SerialException", FdErrMsg(w.fd))

\* serial.Serial.read_all()
SerialReadAll(w) ==
    IF w.fd = "alive"
    THEN Returned([w EXCEPT !.io = Append(@, IoRead("read_all", <<>>, TRUE, w.inbuf)),
                            !.inbuf = <<>>], w.inbuf)
    ELSE Raised([w EXCEPT !.io = Append(@, IoEvent("read_all", <<>>, FALSE))],
                "SerialException", FdErrMsg(w.fd))

\* serial.Serial.read_until(expected): up to and including the first expected,
\* or everything that arrived before the timeout
SerialReadUntil(w, expected) ==
    IF w.fd = "alive"
    THEN LET at == Find(w.inbuf, expected)
             upto == IF at = 0 THEN Len(w.inbuf) ELSE at + Len(expected) - 1
         IN  Returned([w EXCEPT !.io = Append(@, IoRead("read_until", expected, TRUE,
                                                        SubSeq(w.inbuf, 1, upto))),
                                !.inbuf = SubSeq(@, upto + 1, Len(@))],
                      SubSeq(w.inbuf, 1, upto))
    ELSE Raised([w EXCEPT !.io = Append(@, IoEvent("read_until", expected, FALSE))],
                "SerialException", FdErrMsg(w.fd))

\* serial.Serial.close()
SerialClose(w) ==
    [w EXCEPT !.conn.is_open = FALSE, !.fd = "none", !.inbuf = <<>>]

----------------------------------------------------------------------------
(* SerialConnection, terminal/connection.py                                 *)

\* _verify: TRUE when it does not raise
Verify(w) == w.conn.present

\* variant: open() without the test for a session that is already open
ConnOpenAgain(w, devOk) ==
    IF devOk
    THEN Returned([w EXCEPT !.conn = [present |-> TRUE, is_open |-> TRUE,
                                     timeout |-> defaults["timeout"]],
                            !.fd = "alive", !.inbuf = <<>>], <<>>)
    ELSE Raised([w EXCEPT !.conn = NoConn, !.fd = "none", !.inbuf = <<>>],
                "SerialConnectionError", CouldNotOpenMsg)

\* open(); devOk: serial.Serial(port, **self._defaults) can open the device, and
\* the serial object keeps the timeout of the settings it was made with
ConnOpen(w, devOk) ==
    IF w.conn.present /\ w.conn.is_open
    THEN Raised(w, "SerialConnectionError", AlreadyOpenMsg)
    ELSE IF devOk
         THEN Returned([w EXCEPT !.conn = [present |-> TRUE, is_open |-> TRUE,
                                          timeout |-> defaults["timeout"]],
                                 !.fd = "alive", !.inbuf = <<>>], <<>>)
         ELSE Raised([w EXCEPT !.conn = NoConn, !.fd = "none", !.inbuf = <<>>],
                     "SerialConnectionError", CouldNotOpenMsg)

\* variant: close() that closes the serial object and keeps it in _conn
ConnCloseKeep(w) ==
    IF w.conn.present /\ w.conn.is_open
    THEN Returned(SerialClose(w), <<>>)
    ELSE Returned(w, <<>>)

\* variant: close() that leaves an open session alone
ConnCloseSkip(w) == Returned(w, <<>>)

\* close()
ConnClose(w) ==
    IF w.conn.present
    THEN LET w1 == IF w.conn.is_open THEN SerialClose(w) ELSE w
         IN  Returned([w1 EXCEPT !.conn = NoConn], <<>>)
    ELSE Returned(w, <<>>)

\* write_bare(data)
ConnWriteBare(w, data, reply) ==
    IF ~Verify(w)
    THEN Raised(w, "SerialConnectionError", NoOpenMsg)
    ELSE LET o == SerialWrite(w, data, reply)
         IN  IF o.ok THEN o ELSE Raised(o.w, "SerialConnectionError", o.msg)

\* variant: read() that leaves what it returns in the incoming buffer
ConnReadKeep(w) ==
    IF ~Verify(w)
    THEN Raised(w, "SerialConnectionError", NoOpenMsg)
    ELSE LET o == SerialReadAll(w)
         IN  IF o.ok THEN Returned([o.w EXCEPT !.inbuf = w.inbuf], o.val)
             ELSE Raised(o.w, "SerialConnectionError", o.msg)

\* read()
ConnRead(w) ==
    IF ~Verify(w)
    THEN Raised(w, "SerialConnectionError", NoOpenMsg)
    ELSE LET o == SerialReadAll(w)
         IN  IF o.ok THEN o ELSE Raised(o.w, "SerialConnectionError", o.msg)

\* variant: read_until(expected) without the test of how the output ends
ConnReadUntilAny(w, expected) ==
    IF ~Verify(w)
    THEN Raised(w, "SerialConnectionError", NoOpenMsg)
    ELSE LET o == SerialReadUntil(w, expected)
         IN  IF ~o.ok THEN Raised(o.w, "SerialConnectionError", o.msg) ELSE o

\* read_until(expected), with _read_until
ConnReadUntil(w, expected) ==
    IF ~Verify(w)
    THEN Raised(w, "SerialConnectionError", NoOpenMsg)
    ELSE LET o == SerialReadUntil(w, expected)
         IN  IF ~o.ok THEN Raised(o.w, "SerialConnectionError", o.msg)
             ELSE IF EndsWith(o.val, expected) THEN o
             ELSE NoMatchError(o.w, expected, defaults["timeout"], o.val)

\* variant: write(data) that looks for the newline before it verifies the session
ConnWriteUnverified(w, data, reply) ==
    IF Contains(data, newline)
    THEN Raised(w, "RuntimeError", <<"'Write' operation cannot be used with data containing the selected newline">>)
    ELSE IF ~Verify(w)
    THEN Raised(w, "SerialConnectionError", NoOpenMsg)
    ELSE LET o == ConnWriteBare(w, data \o newline, reply)
         IN  IF o.ok THEN ConnReadUntil(o.w, newline) ELSE o

\* variant: write(data) that looks for the newline after it has written
ConnWriteLate(w, data, reply) ==
    IF ~Verify(w)
    THEN Raised(w, "SerialConnectionError", NoOpenMsg)
    ELSE LET o == ConnWriteBare(w, data \o newline, reply)
         IN  IF ~o.ok THEN o
             ELSE IF Contains(data, newline)
             THEN Raised(o.w, "RuntimeError", <<"'Write' operation cannot be used with data containing the selected newline">>)
             ELSE ConnReadUntil(o.w, newline)

\* write(data)
ConnWrite(w, data, reply) ==
    IF ~Verify(w)
    THEN Raised(w, "SerialConnectionError", NoOpenMsg)
    ELSE IF Contains(data, newline)
    THEN Raised(w, "RuntimeError", <<"'Write' operation cannot be used with data containing the selected newline">>)
    ELSE LET o == ConnWriteBare(w, data \o newline, reply)
         IN  IF o.ok THEN ConnReadUntil(o.w, newline) ELSE o

----------------------------------------------------------------------------
(* The device on the other end of the line                                  *)

PROMPT == ">>"

\* lines joined by sep: sep.join(lines)
RECURSIVE Join(_, _)
Join(lines, sep) ==
    IF Len(lines) = 0 THEN <<>>
    ELSE IF Len(lines) = 1 THEN lines[1]
    ELSE lines[1] \o sep \o Join(Tail(lines), sep)

\* one state row "i, ma, flags, profile, charging, charged, energy"
StateRow(i, ma, flags, pid, tcharging, tcharged, energy) ==
    <<i, COMMA, SP, ma, COMMA, SP>> \o flags
        \o <<COMMA, SP, pid, COMMA, SP, tcharging, COMMA, SP, tcharged, COMMA, SP, energy>>

\* rows the hub can report for port i
PortRows(i) ==
    { StateRow(i, "0000", <<"D", SP, "O">>, "0", "0", "x", "0.00"),
      StateRow(i, "0946", <<"R", SP, "A", SP, "S">>, "1", "0", "x", "0.10") }

HubPorts == {"1", "2"}

GenericErrorLine == <<"*", "E", "4", "1", "0", ":", SP, "Port number must be 1..8">>
FatalErrorLine ==
    <<"*", "FATAL", SP, "ERROR", SP, "E", "0", "0", "1", ":", SP, "Error text">>
InfoLine == <<"PP15S">>

\* payloads (sequences of lines) the firmware can answer a command line with
DevicePayloads(cmd) ==
    IF cmd = <<>> THEN { <<>> }
    ELSE IF Head(cmd) = "state"
    THEN IF Len(cmd) = 1
         THEN { <<r1, r2>> : r1 \in PortRows("1"), r2 \in PortRows("2") }
         ELSE IF cmd[Len(cmd)] \in HubPorts
              THEN { <<r>> : r \in PortRows(cmd[Len(cmd)]) }
              ELSE { <<GenericErrorLine>>, <<FatalErrorLine>> }
    ELSE IF Head(cmd) = "mode"
    THEN { <<>>, <<GenericErrorLine>> }
    ELSE { <<InfoLine>> }

\* echo of the command line, the payload lines, the prompt
DeviceFrame(cmd, payload) ==
    cmd \o response_return
        \o (IF payload = <<>> THEN <<>> ELSE Join(payload, response_return) \o response_return)
        \o <<PROMPT>>

\* what arrives in the incoming buffer after data was written: nothing while the
\* command line is incomplete or the device stays silent, the echo alone when the
\* answer is cut short, or the whole frame
DeviceReplies(data) ==
    IF ~EndsWith(data, newline) THEN { <<>> }
    ELSE LET cmd == SubSeq(data, 1, Len(data) - Len(newline))
         IN  { <<>>, cmd \o response_return }
                 \cup { DeviceFrame(cmd, p) : p \in DevicePayloads(cmd) }

----------------------------------------------------------------------------
(* SerialCli response sanitizer, terminal/cli.py                            *)

\* s.split(sep), sep not empty
RECURSIVE Split(_, _)
Split(s, sep) ==
    LET at == Find(s, sep)
    IN  IF at = 0 THEN <<s>>
        ELSE <<SubSeq(s, 1, at - 1)>> \o Split(SubSeq(s, at + Len(sep), Len(s)), sep)

RECURSIVE LStripChars(_, _)
LStripChars(s, chars) ==
    IF s # <<>> /\ Head(s) \in chars THEN LStripChars(Tail(s), chars) ELSE s

\* s.rstrip(chars)
RECURSIVE RStripChars(_, _)
RStripChars(s, chars) ==
    IF s # <<>> /\ s[Len(s)] \in chars
    THEN RStripChars(SubSeq(s, 1, Len(s) - 1), chars)
    ELSE s

\* s.strip()
Strip(s) == RStripChars(LStripChars(s, Whitespace), Whitespace)

Range(s) == { s[i] : i \in 1..Len(s) }

NotEmpty(line) == line # <<>>

\* _split_response_to_lines
SplitResponseToLines(response) ==
    LET raw == Split(response, response_return)
    IN  [i \in 1..Len(raw) |-> Strip(raw[i])]

\* _strip_prompt
StripPrompt(response) ==
    LET lines == SplitResponseToLines(response)
    IN  IF Contains(lines[Len(lines)], <<PROMPT>>)
        THEN Join(SubSeq(lines, 1, Len(lines) - 1), response_return)
        ELSE response

\* _strip_whitespaces
StripWhitespaces(response) ==
    Join(SelectSeq(SplitResponseToLines(response), NotEmpty), response_return)

\* _strip_command_echo
StripCommandEcho(command, response) ==
    LET lines == SplitResponseToLines(response)
        cmd == RStripChars(command, Range(response_return))
    IN  IF \E i \in 1..Len(lines) : lines[i] = cmd
        THEN Join(Tail(lines), response_return)
        ELSE Join(lines, response_return)

\* variant: the echo is looked for before the blank lines are removed
SanitizeEchoFirst(command, response) ==
    StripWhitespaces(StripCommandEcho(command, StripPrompt(response)))

\* _sanitize_response
SanitizeResponse(command, response) ==
    StripCommandEcho(command, StripWhitespaces(StripPrompt(response)))

----------------------------------------------------------------------------
(* CliValidator, entities/cli.py                                            *)

\* In text the validator reads, '*', 'E', ':' and every digit are atoms of their
\* own, so that the patterns are matched character by character where they
\* look at characters.
Digits == { "0", "1", "2", "3", "4", "5", "6", "7", "8", "9" }

\* \s+?(.*)$ can match from position k of response: at least one whitespace
\* atom, then no line feed up to the end of the text (or to the line feed that
\* ends it); '.' matches everything but the line feed
RestMatches(response, k) ==
    \E m \in k..Len(response) :
        /\ \A j \in k..m : response[j] \in Whitespace
        /\ \A j \in (m + 1)..Len(response) : response[j] # LF \/ j = Len(response)

\* group (.*) of \s+?(.*)$ from position k: \s+? takes as little as it can
RestGroup(response, k) ==
    LET ends == { m \in k..Len(response) :
                     /\ \A j \in k..m : response[j] \in Whitespace
                     /\ \A j \in (m + 1)..Len(response) :
                           response[j] # LF \/ j = Len(response) }
        m == CHOOSE x \in ends : \A y \in ends : x <= y
        last == IF response[Len(response)] = LF /\ m < Len(response)
                THEN Len(response) - 1 ELSE Len(response)
    IN  SubSeq(response, m + 1, last)

\* E(\d{3}):\s+?(.*)$ matches with its E at position c
CodeAt(response, c) ==
    /\ c + 4 <= Len(response)
    /\ response[c] = "E"
    /\ \A j \in (c + 1)..(c + 3) : response[j] \in Digits
    /\ response[c + 4] = ":"
    /\ RestMatches(response, c + 5)

\* GENERIC_ERROR pattern ^\*E(\d{3}):\s+?(.*)$, searched without re.MULTILINE
MatchesGeneric(response) ==
    /\ Len(response) >= 2
    /\ response[1] = "*"
    /\ CodeAt(response, 2)

\* where the E of FATAL_ERROR's code can be: .*? does not cross a line feed
FatalCodePositions(response) ==
    { c \in 3..Len(response) :
         /\ CodeAt(response, c)
         /\ \A j \in 3..(c - 1) : response[j] # LF }

\* FATAL_ERROR pattern ^\*FATAL.*?E(\d{3}):\s+?(.*)$, searched without re.MULTILINE
MatchesFatal(response) ==
    /\ Len(response) >= 2
    /\ response[1] = "*"
    /\ response[2] = "FATAL"
    /\ FatalCodePositions(response) # {}

\* what validate found: the error type ("" for none) with result.groups()
Found(type, response, c) ==
    [type |-> type, code |-> SubSeq(response, c + 1, c + 3),
     reason |-> RestGroup(response, c + 5)]

NothingFound == [type |-> "", code |-> <<>>, reason |-> <<>>]

\* variant: validate that knows the generic pattern only
ValidateGenericOnly(response) ==
    IF MatchesGeneric(response) THEN Found("GenericError", response, 2)
    ELSE NothingFound

\* validate: the error it raises with its code and reason, none when it returns
Validate(response) ==
    IF MatchesGeneric(response) THEN Found("GenericError", response, 2)
    ELSE IF MatchesFatal(response)
    THEN Found("FatalError", response,
               CHOOSE c \in FatalCodePositions(response) :
                  \A d \in FatalCodePositions(response) : c <= d)
    ELSE NothingFound

\* CommandLineError._get_message, exceptions.py
CommandLineMsg(code, reason) ==
    <<"Command execution failed.", LF, "Error code:", SP>> \o code
        \o <<".", LF, "Reason:", SP>> \o reason \o <<"'">>

\* GenericError(code, reason) or FatalError(code, reason) raised
CommandLineError(w, found) ==
    [w |-> w, ok |-> FALSE, type |-> found.type,
     msg |-> CommandLineMsg(found.code, found.reason),
     val |-> [code |-> found.code, reason |-> found.reason]]

\* variant: send_command that returns the response without validating it
SendCommandUnchecked(w, response) == Returned(w, response)

\* CambrionixCli.send_command once _send_command has returned response:
\* CliValidator.validate(response); return response
SendCommand(w, response) ==
    LET found == Validate(response)
    IN  IF found.type = "" THEN Returned(w, response)
        ELSE CommandLineError(w, found)

----------------------------------------------------------------------------
(* TerminalCommands, entities/cli.py                                        *)

\* Flags.names() of Mode, entities/hub.py
ModeNames == { "OFF", "SYNC", "BIASSED", "CHARGE" }

\* mode[0]
FirstLetter(name) ==
    CASE name = "OFF" -> "O"
      [] name = "SYNC" -> "S"
      [] name = "BIASSED" -> "B"
      [] name = "CHARGE" -> "C"
      [] OTHER -> name

\* str.lower() on the mode tokens of the model
Lower(a) ==
    CASE a = "O" -> "o"
      [] a = "S" -> "s"
      [] a = "B" -> "b"
      [] a = "C" -> "c"
      [] a = "BIASED" -> "biased"
      [] a = "CHARGED" -> "charged"
      [] a = "Sync" -> "sync"
      [] a = "Off" -> "off"
      [] OTHER -> a

CmdState(port) ==
    IF port = "None" THEN <<"state">> ELSE <<"state", SP, port>>

CmdMode(mode, port) ==
    LET m == Lower(IF mode \in ModeNames THEN FirstLetter(mode) ELSE mode)
    IN  IF port = "None" THEN <<"mode", SP, m>> ELSE <<"mode", SP, m, SP, port>>

CmdReboot(watchdog) ==
    IF watchdog THEN <<"reboot", SP, "watchdog">> ELSE <<"reboot">>

----------------------------------------------------------------------------
(* Port, PortFlags and the registry, entities/hub.py                        *)

ModeValues == { "O", "S", "B", "P", "I", "C", "F" }
StateValues == { "A", "D" }
SystemValues == { "T", "E", "R", "r" }

\* decimal strings of the model and int() of them
IntAtoms == { "0", "1", "2", "9", "0000", "0946" }

IntOf(a) ==
    CASE a = "1" -> 1
      [] a = "2" -> 2
      [] a = "9" -> 9
      [] a = "0946" -> 946
      [] OTHER -> 0

\* float() of the decimal strings of the model, in hundredths
FloatAtoms == IntAtoms \cup { "0.00", "0.10" }

HundredthsOf(a) ==
    CASE a = "0.10" -> 10
      [] a = "0.00" -> 0
      [] OTHER -> 100 * IntOf(a)

\* int(field) succeeds
IsInt(field) == Len(field) = 1 /\ field[1] \in IntAtoms

IsFloat(field) == Len(field) = 1 /\ field[1] \in FloatAtoms

DefaultFlags == [mode |-> "O", state |-> "D", system |-> <<>>]

NotCharged == [x |-> TRUE, secs |-> 0]

\* Port(index) with the defaults of Port.__init__
NewPortRecord(idx) ==
    [index |-> idx, current_ma |-> 0, flags |-> DefaultFlags, profile_id |-> 0,
     time_charging |-> 0, time_charged |-> NotCharged, energy |-> 0]

\* PortList.search_by_index: position of the first port with the index, 0 for None
SearchByIndex(plist, idx) ==
    LET hits == { i \in 1..Len(plist) : plist[i].index = idx }
    IN  IF hits = {} THEN 0 ELSE CHOOSE i \in hits : \A j \in hits : i <= j

\* variant: new_port that keeps only the port it adds
NewPortAlone(plist, idx) == <<NewPortRecord(idx)>>

\* UsbHub.new_port
NewPort(plist, idx) ==
    IF SearchByIndex(plist, idx) = 0 THEN Append(plist, NewPortRecord(idx)) ELSE plist

\* PortList.__str__ order: sorted(self, key=index)
RECURSIVE SortedPorts(_)
SortedPorts(plist) ==
    IF plist = <<>> THEN <<>>
    ELSE LET least == CHOOSE i \in 1..Len(plist) :
                         /\ \A j \in 1..Len(plist) : plist[i].index <= plist[j].index
                         /\ \A j \in 1..(i - 1) : plist[j].index # plist[i].index
             rest == [k \in 1..(Len(plist) - 1) |->
                         IF k < least THEN plist[k] ELSE plist[k + 1]]
         IN  <<plist[least]>> \o SortedPorts(rest)

----------------------------------------------------------------------------
(* Port attributes and the UsbHub calls on Python values, entities/hub.py   *)

\* values that are neither numbers nor text
PNone == [kind |-> "none", num |-> 0, text |-> ""]
PList == [kind |-> "list", num |-> 0, text |-> ""]

\* a PortFlags instance as a value
PFlags(flags) == [kind |-> "flags", num |-> 0, text |-> "", flags |-> flags]

\* decimal strings int() accepts, with their values
DecimalText ==
    [t \in {"0", "1", "2", "8", "1000", "-1"} |->
        CASE t = "0" -> 0
          [] t = "1" -> 1
          [] t = "2" -> 2
          [] t = "8" -> 8
          [] t = "1000" -> 1000
          [] OTHER -> 0 - 1]

\* further strings float() accepts, in hundredths
HundredthsText == [t \in {"0.05"} |-> 5]

\* int() of a float truncates towards zero
Truncated(hundredths) ==
    IF hundredths < 0 THEN 0 - ((0 - hundredths) \div 100) ELSE hundredths \div 100

\* int(value): the number, or the TypeError or ValueError int() raises
IntValue(v) ==
    CASE v.kind \in {"int", "bool"} -> [ok |-> TRUE, type |-> "", num |-> v.num]
      [] v.kind = "float" -> [ok |-> TRUE, type |-> "", num |-> Truncated(v.num)]
      [] v.kind = "str" ->
            IF v.text \in DOMAIN DecimalText
            THEN [ok |-> TRUE, type |-> "", num |-> DecimalText[v.text]]
            ELSE [ok |-> FALSE, type |-> "ValueError", num |-> 0]
      [] OTHER -> [ok |-> FALSE, type |-> "TypeError", num |-> 0]

\* float(value), in hundredths
FloatValue(v) ==
    CASE v.kind \in {"int", "bool"} -> [ok |-> TRUE, type |-> "", num |-> 100 * v.num]
      [] v.kind = "float" -> [ok |-> TRUE, type |-> "", num |-> v.num]
      [] v.kind = "str" ->
            IF v.text \in DOMAIN DecimalText
            THEN [ok |-> TRUE, type |-> "", num |-> 100 * DecimalText[v.text]]
            ELSE IF v.text \in DOMAIN HundredthsText
            THEN [ok |-> TRUE, type |-> "", num |-> HundredthsText[v.text]]
            ELSE [ok |-> FALSE, type |-> "ValueError", num |-> 0]
      [] OTHER -> [ok |-> FALSE, type |-> "TypeError", num |-> 0]

\* a setter returned, or raised ValueError and stored nothing
Assigned(port) == [ok |-> TRUE, type |-> "", port |-> port]
Rejected(port) == [ok |-> FALSE, type |-> "ValueError", port |-> port]

\* the setters that take int(value) and refuse a negative one: index,
\* profile_id, time_charging
SetCounted(port, attrib, v) ==
    LET c == IntValue(v)
    IN  IF ~c.ok \/ c.num < 0 THEN Rejected(port)
        ELSE Assigned([port EXCEPT ![attrib] = c.num])

\* current_ma setter: int(ma), then ma / 1000; the record keeps the amperes in
\* thousandths
SetCurrent(port, v) ==
    LET c == IntValue(v)
    IN  IF ~c.ok THEN Rejected(port)
        ELSE Assigned([port EXCEPT !.current_ma = c.num])

\* flags setter: None gives PortFlags('O', 'D')
SetFlags(port, v) ==
    IF v.kind = "none" THEN Assigned([port EXCEPT !.flags = DefaultFlags])
    ELSE IF v.kind = "flags" THEN Assigned([port EXCEPT !.flags = v.flags])
    ELSE Rejected(port)

\* time_charged setter: int(time), or the text 'x' of TimeCharged kept as it is
SetTimeCharged(port, v) ==
    LET c == IntValue(v)
    IN  IF c.ok
        THEN IF c.num < 0 THEN Rejected(port)
             ELSE Assigned([port EXCEPT !.time_charged = [x |-> FALSE, secs |-> c.num]])
        ELSE IF v = PStr("x") THEN Assigned([port EXCEPT !.time_charged = NotCharged])
        ELSE Rejected(port)

\* energy setter: float(consumed), kept with two decimals
SetEnergy(port, v) ==
    LET c == FloatValue(v)
    IN  IF ~c.ok \/ c.num < 0 THEN Rejected(port)
        ELSE Assigned([port EXCEPT !.energy = c.num])

\* the attributes a Port has for hasattr
PortAttribs ==
    { "index", "current_ma", "flags", "profile_id", "time_charging", "time_charged",
      "energy" }

\* setattr(port, attrib, value) through the properties of Port
SetAttr(port, attrib, v) ==
    CASE attrib = "current_ma" -> SetCurrent(port, v)
      [] attrib = "flags" -> SetFlags(port, v)
      [] attrib = "time_charged" -> SetTimeCharged(port, v)
      [] attrib = "energy" -> SetEnergy(port, v)
      [] OTHER -> SetCounted(port, attrib, v)

\* variant: Port(index) that takes any integer
PortInitAny(v) ==
    LET c == IntValue(v)
    IN  IF ~c.ok THEN Rejected(NewPortRecord(0)) ELSE Assigned(NewPortRecord(c.num))

\* Port(index): the index setter, then the defaults of the other attributes
PortInit(v) == SetCounted(NewPortRecord(0), "index", v)

\* what a UsbHub call leaves: the registry, what it returned or raised, and
\* whether it warned
HubDone(plist, val) ==
    [ok |-> TRUE, type |-> "", ports |-> plist, val |-> val, warned |-> FALSE]
HubRaised(plist, type) ==
    [ok |-> FALSE, type |-> type, ports |-> plist, val |-> <<>>, warned |-> FALSE]

\* UsbHub.new_port(index)
HubNewPort(plist, v) ==
    LET c == IntValue(v)
        made == PortInit(v)
    IN  IF ~c.ok THEN HubRaised(plist, "ValueError")
        ELSE IF SearchByIndex(plist, c.num) # 0 THEN HubDone(plist, <<>>)
        ELSE IF ~made.ok THEN HubRaised(plist, "ValueError")
        ELSE HubDone(Append(plist, made.port), <<>>)

\* the for loop of update_port over kwargs.items() from item i on
RECURSIVE SetAttrs(_, _, _)
SetAttrs(port, kwargs, i) ==
    IF i > Len(kwargs) THEN Assigned(port)
    ELSE IF kwargs[i].key \notin PortAttribs THEN SetAttrs(port, kwargs, i + 1)
    ELSE LET set == SetAttr(port, kwargs[i].key, kwargs[i].value)
         IN  IF set.ok THEN SetAttrs(set.port, kwargs, i + 1) ELSE set

\* variant: update_port that registers the port it does not find
HubUpdatePortNew(plist, v, kwargs) == HubNewPort(plist, v)

\* UsbHub.update_port(index, **kwargs)
HubUpdatePort(plist, v, kwargs) ==
    LET c == IntValue(v)
        pos == SearchByIndex(plist, c.num)
        set == SetAttrs(plist[pos], kwargs, 1)
        done == HubDone([plist EXCEPT ![pos] = set.port], <<>>)
    IN  IF ~c.ok THEN HubRaised(plist, "ValueError")
        ELSE IF pos = 0 THEN HubRaised(plist, "IndexError")
        ELSE IF kwargs = <<>> THEN [done EXCEPT !.warned = TRUE]
        ELSE IF set.ok THEN done
        ELSE HubRaised(done.ports, "ValueError")

\* UsbHub.remove_port(index): list.remove takes out the first port equal to
\* the one found, and ports are equal when their indexes are
HubRemovePort(plist, v) ==
    LET c == IntValue(v)
        pos == SearchByIndex(plist, c.num)
    IN  IF ~c.ok THEN HubRaised(plist, "ValueError")
        ELSE IF pos = 0 THEN HubDone(plist, <<>>)
        ELSE HubDone([k \in 1..(Len(plist) - 1) |->
                         IF k < pos THEN plist[k] ELSE plist[k + 1]],
                     <<plist[pos]>>)

\* vars(port.flags).values(): _mode, _state and _system, the system flags
\* joined with blanks into one text
FlagTexts(flags) ==
    { <<flags.mode>>, <<flags.state>>,
      Join([i \in 1..Len(flags.system) |-> <<flags.system[i]>>], <<SP>>) }

\* PortList.search_by_flag(flag)
SearchByFlag(plist, flag) ==
    LET Has(port) == flag \in FlagTexts(port.flags)
    IN  SelectSeq(plist, Has)

\* PortFlags.__eq__: _system, _state and _mode compared
FlagsEq(a, b) ==
    /\ Join([i \in 1..Len(a.system) |-> <<a.system[i]>>], <<SP>>)
          = Join([i \in 1..Len(b.system) |-> <<b.system[i]>>], <<SP>>)
    /\ a.state = b.state
    /\ a.mode = b.mode

----------------------------------------------------------------------------
(* PortFlags: construction and its three properties, entities/hub.py        *)

\* a tuple of texts, as *system arrives in PortFlags.__init__
PTuple(items) == [kind |-> "tuple", num |-> 0, text |-> "", items |-> items]

\* the characters of the texts that are iterated
Chars(text) ==
    CASE text = "" -> <<>>
      [] text = "ET" -> <<"E", "T">>
      [] text = "r r" -> <<"r", SP, "r">>
      [] OTHER -> <<text>>

\* a setter of PortFlags returned, or raised and stored nothing
FlagsAssigned(flags) == [ok |-> TRUE, type |-> "", flags |-> flags]
FlagsRaised(flags, type) == [ok |-> FALSE, type |-> type, flags |-> flags]

\* mode setter: Mode.has_value compares the value with 'O', 'S', 'B' and with
\* the members of the Charge tuple
FlagsSetMode(flags, v) ==
    IF v.kind = "str" /\ v.text \in ModeValues
    THEN FlagsAssigned([flags EXCEPT !.mode = v.text])
    ELSE FlagsRaised(flags, "ValueError")

\* state setter: Flags.has_value is 'value in set(...)', which hashes the value;
\* a list cannot be hashed
FlagsSetState(flags, v) ==
    IF v.kind = "list" THEN FlagsRaised(flags, "TypeError")
    ELSE IF v.kind = "str" /\ v.text \in StateValues
    THEN FlagsAssigned([flags EXCEPT !.state = v.text])
    ELSE FlagsRaised(flags, "ValueError")

\* system setter: every item of iter(system) is validated, then ' '.join(system)
\* is stored; a text is iterated by character, None and numbers are not iterable
FlagsSetSystem(flags, v) ==
    CASE v.kind = "str" ->
            IF \A i \in 1..Len(Chars(v.text)) : Chars(v.text)[i] \in SystemValues
            THEN FlagsAssigned([flags EXCEPT !.system = Chars(v.text)])
            ELSE FlagsRaised(flags, "ValueError")
      [] v.kind = "tuple" ->
            IF \A i \in 1..Len(v.items) : v.items[i] \in SystemValues
            THEN FlagsAssigned([flags EXCEPT !.system = v.items])
            ELSE FlagsRaised(flags, "ValueError")
      [] v.kind = "list" -> FlagsAssigned([flags EXCEPT !.system = <<>>])
      [] OTHER -> FlagsRaised(flags, "TypeError")

\* setattr(flags, field, value)
FlagsSetAttr(flags, field, v) ==
    CASE field = "mode" -> FlagsSetMode(flags, v)
      [] field = "state" -> FlagsSetState(flags, v)
      [] OTHER -> FlagsSetSystem(flags, v)

\* PortFlags(mode, state, *system): the three setters in the order of __init__
PortFlagsInit(mode, state, system) ==
    LET blank == [mode |-> "", state |-> "", system |-> <<>>]
        m == FlagsSetMode(blank, mode)
        s == FlagsSetState(m.flags, state)
        y == FlagsSetSystem(s.flags, system)
    IN  IF ~m.ok THEN m ELSE IF ~s.ok THEN s ELSE y

----------------------------------------------------------------------------
(* StateParser, entities/cli.py                                             *)

ParserNewline == <<CR, LF>>
ParserLinesep == <<COMMA>>
NKeys == 6

NotSpace(a) == a \notin Whitespace

\* readlines and splitlines: the stripped fields of every stripped line
ParserRows(response) ==
    LET raw == Split(response, ParserNewline)
    IN  [i \in 1..Len(raw) |->
            LET fields == Split(Strip(raw[i]), ParserLinesep)
            IN  [k \in 1..Len(fields) |-> Strip(fields[k])]]

\* variant: _process_flags that does not reverse the tokens
ProcessFlagsForward(field) ==
    LET toks == SelectSeq(field, NotSpace)
        n == Len(toks)
    IN  IF n < 2 THEN [ok |-> FALSE, type |-> "TypeError", flags |-> DefaultFlags]
        ELSE IF toks[1] \notin ModeValues \/ toks[2] \notin StateValues
                \/ \E i \in 3..n : toks[i] \notin SystemValues
        THEN [ok |-> FALSE, type |-> "ValueError", flags |-> DefaultFlags]
        ELSE [ok |-> TRUE, type |-> "",
              flags |-> [mode |-> toks[1], state |-> toks[2], system |-> SubSeq(toks, 3, n)]]

\* _process_flags: flags.split(), reversed, PortFlags(mode, state, *system)
ProcessFlags(field) ==
    LET toks == SelectSeq(field, NotSpace)
        n == Len(toks)
        rev == [i \in 1..n |-> toks[n + 1 - i]]
    IN  IF n < 2 THEN [ok |-> FALSE, type |-> "TypeError", flags |-> DefaultFlags]
        ELSE IF rev[1] \notin ModeValues \/ rev[2] \notin StateValues
                \/ \E i \in 3..n : rev[i] \notin SystemValues
        THEN [ok |-> FALSE, type |-> "ValueError", flags |-> DefaultFlags]
        ELSE [ok |-> TRUE, type |-> "",
              flags |-> [mode |-> rev[1], state |-> rev[2], system |-> SubSeq(rev, 3, n)]]

\* the Port setters, in the order update_port applies the row's keys; a setter
\* that raises leaves the attributes set before it in place
UpdatePortRecord(port, values, flags) ==
    LET p1 == [port EXCEPT !.current_ma = IntOf(values[2][1])]
        p2 == [p1 EXCEPT !.flags = flags]
        p3 == [p2 EXCEPT !.profile_id = IntOf(values[4][1])]
        p4 == [p3 EXCEPT !.time_charging = IntOf(values[5][1])]
        p5 == [p4 EXCEPT !.time_charged =
                  IF IsInt(values[6]) THEN [x |-> FALSE, secs |-> IntOf(values[6][1])]
                  ELSE NotCharged]
        p6 == [p5 EXCEPT !.energy = HundredthsOf(values[7][1])]
    IN  IF ~IsInt(values[2]) THEN [ok |-> FALSE, port |-> port]
        ELSE IF ~IsInt(values[4]) THEN [ok |-> FALSE, port |-> p2]
        ELSE IF ~IsInt(values[5]) THEN [ok |-> FALSE, port |-> p3]
        ELSE IF ~IsInt(values[6]) /\ values[6] # <<"x">> THEN [ok |-> FALSE, port |-> p4]
        ELSE IF ~IsFloat(values[7]) THEN [ok |-> FALSE, port |-> p5]
        ELSE [ok |-> TRUE, port |-> p6]

\* Cambrionix._set_state over the rows from row k on: process() yields one row at
\* a time, and each is merged with new_port and update_port before the next is read
RECURSIVE SetState(_, _, _)
SetState(plist, rows, k) ==
    IF k > Len(rows) THEN [ok |-> TRUE, type |-> "", ports |-> plist]
    ELSE LET values == rows[k]
             fl == ProcessFlags(values[3])
         IN  IF Len(values) - 1 # NKeys
             THEN [ok |-> FALSE, type |-> "ValueError", ports |-> plist]
             ELSE IF ~fl.ok
             THEN [ok |-> FALSE, type |-> fl.type, ports |-> plist]
             ELSE IF ~IsInt(values[1])
             THEN [ok |-> FALSE, type |-> "ValueError", ports |-> plist]
             ELSE LET idx == IntOf(values[1][1])
                      added == NewPort(plist, idx)
                      pos == SearchByIndex(added, idx)
                      up == UpdatePortRecord(added[pos], values, fl.flags)
                      merged == [added EXCEPT ![pos] = up.port]
                  IN  IF up.ok THEN SetState(merged, rows, k + 1)
                      ELSE [ok |-> FALSE, type |-> "ValueError", ports |-> merged]

\* "Row format: '{!r}' is not valid".format(values)
RowFormatMsg(values) == <<"Row format: '", values, "' is not valid">>

\* what process() has yielded, and the exception that ended it if one did
Yielded(pairs) == [ok |-> TRUE, type |-> "", msg |-> <<>>, val |-> pairs]
ProcessRaised(pairs, type, msg) == [ok |-> FALSE, type |-> type, msg |-> msg, val |-> pairs]

\* variant: a parser that leaves out the rows it cannot map
RECURSIVE ProcessSkipping(_, _, _)
ProcessSkipping(rows, k, pairs) ==
    IF k > Len(rows) THEN Yielded(pairs)
    ELSE LET values == rows[k]
             fl == ProcessFlags(values[3])
         IN  IF Len(values) - 1 # NKeys \/ ~fl.ok THEN ProcessSkipping(rows, k + 1, pairs)
             ELSE ProcessSkipping(rows, k + 1,
                     Append(pairs, [index |-> values[1], current_ma |-> values[2],
                                    flags |-> fl.flags, profile_id |-> values[4],
                                    time_charging |-> values[5],
                                    time_charged |-> values[6], energy |-> values[7]]))

\* StateParser.process from row k on, pairs having been yielded:
\* _map_line_values_to_keys checks the length and zips the keys, _process_flags
\* replaces the flags, and the pair (index, map) is yielded
RECURSIVE ProcessRows(_, _, _)
ProcessRows(rows, k, pairs) ==
    IF k > Len(rows) THEN Yielded(pairs)
    ELSE LET values == rows[k]
             fl == ProcessFlags(values[3])
         IN  IF Len(values) - 1 # NKeys
             THEN ProcessRaised(pairs, "ValueError", RowFormatMsg(values))
             ELSE IF ~fl.ok THEN ProcessRaised(pairs, fl.type, <<>>)
             ELSE ProcessRows(rows, k + 1,
                     Append(pairs, [index |-> values[1], current_ma |-> values[2],
                                    flags |-> fl.flags, profile_id |-> values[4],
                                    time_charging |-> values[5],
                                    time_charged |-> values[6], energy |-> values[7]]))

----------------------------------------------------------------------------
(* State after construction, environment steps, call results               *)

MaxBuf == 7

NoSnap == [conn |-> NoConn, fd |-> "none", inbuf |-> <<>>, dev |-> FALSE,
           defaults |-> DEFAULT_SETTINGS]

NoError == [type |-> "", msg |-> <<>>]

NoResult ==
    [op |-> "none", arg |-> <<>>, ok |-> TRUE, type |-> "", msg |-> <<>>,
     val |-> <<>>, rendered |-> <<>>, pre |-> NoSnap]

NoCall == [api |-> "none", command |-> <<>>, seconds |-> 0, port |-> "None",
           phase |-> 0, response |-> <<>>, caught |-> NoError, before |-> <<>>]

\* the transport and the device as a call (or a step of the wrapper) finds them
Snap == [conn |-> conn, fd |-> fd, inbuf |-> inbuf, dev |-> devPresent,
         defaults |-> defaults]

Outcome(op, arg, o, rendered, pre) ==
    [op |-> op, arg |-> arg, ok |-> o.ok, type |-> o.type, msg |-> o.msg,
     val |-> o.val, rendered |-> rendered, pre |-> pre]

Opened == [last |-> "open", reopened |-> life.reopened \/ life.last = "close"]

Closed == [life EXCEPT !.last = "close"]

\* SerialConnection.__init__ leaves _conn = None; SerialCli.__init__ hands
\* default_enter to the connection as its newline
Constructed(enter, kwargs) ==
    /\ newline = enter
    /\ response_return = enter
    /\ serial_speed = SLOW
    /\ group = "-"
    /\ defaults = SetDefaultParameters(DEFAULT_SETTINGS, kwargs).defaults
    /\ conn = NoConn
    /\ fd = "none"
    /\ devPresent \in BOOLEAN
    /\ inbuf = <<>>
    /\ log = <<>>
    /\ result = NoResult
    /\ pc = "idle"
    /\ cur = NoCall
    /\ ports = <<>>
    /\ life = [last |-> "none", reopened |-> FALSE]

\* keyword arguments given to the constructor
CtorKwargs == { <<>>, <<Param("timeout", PFloat(1))>> }

\* a SerialConnection with any of the line breaks as its newline, with the
\* default timeout or one of its own

InitConn == \E enter \in LineBreaks : \E kwargs \in CtorKwargs : Constructed(enter, kwargs)

\* Cambrionix.__init__ with its defaults: default_enter = response_return = CRLF,
\* serial_speed = 'slow'
Init == Constructed(<<CR, LF>>, <<Param("baudrate", PInt(SLOW))>>)

SetWorld(w) ==
    /\ conn' = w.conn
    /\ fd' = w.fd
    /\ inbuf' = w.inbuf
    /\ log' = w.io

\* between calls the caller has taken the last call's outcome; during a call the
\* wrapper's locals stay as they are
Observed ==
    IF pc = "idle"
    THEN /\ result' = NoResult
         /\ cur' = NoCall
         /\ log' = <<>>
    ELSE UNCHANGED <<result, cur, log>>

\* the device drops its serial endpoint (reboot, unplug): the open handle dies and
\* further I/O on it fails with ENXIO 'Device not configured' or with EIO,
\* depending on the platform
EnvDrop ==
    /\ devPresent
    /\ devPresent' = FALSE
    /\ \E e \in {"dnc", "eio"} : fd' = IF fd = "alive" THEN e ELSE fd
    /\ inbuf' = <<>>
    /\ Observed
    /\ UNCHANGED <<cfgVars, conn, pc, ports, life>>

\* the endpoint comes back; a handle opened before stays dead
EnvReturn ==
    /\ ~devPresent
    /\ devPresent' = TRUE
    /\ Observed
    /\ UNCHANGED <<cfgVars, conn, fd, inbuf, pc, ports, life>>

----------------------------------------------------------------------------
(* Calls on a SerialConnection                                              *)

WriteData ==
    { <<"cmd">>, <<"cmd", LF>>, <<"cmd", CR, "x">>, <<"cmd", CR, LF>> }

BareData == { <<"cmd">>, <<"cmd", LF>>, <<"cmd", CR, LF>> }

ExpectedTokens == { <<PROMPT>>, <<LF>> }

\* the transport as a call finds it, with an empty trace
Entry == [World EXCEPT !.io = <<>>]

Finish(op, arg, o) ==
    /\ SetWorld(o.w)
    /\ result' = Outcome(op, arg, o, <<>>, Snap)
    /\ life' = IF op = "open" /\ o.ok THEN Opened
               ELSE IF op = "close" THEN Closed
               ELSE life
    /\ UNCHANGED <<cfgVars, devPresent, dispVars>>

CallOpen ==
    /\ pc = "idle"
    /\ Finish("open", <<>>, ConnOpen(Entry, devPresent))

CallClose ==
    /\ pc = "idle"
    /\ Finish("close", <<>>, ConnClose(Entry))

CallWrite ==
    /\ pc = "idle"
    /\ \E data \in WriteData :
         \E reply \in DeviceReplies(data \o newline) :
            /\ Len(inbuf) + Len(reply) <= MaxBuf
            /\ Finish("write", data, ConnWrite(Entry, data, reply))

CallWriteBare ==
    /\ pc = "idle"
    /\ \E data \in BareData :
         \E reply \in DeviceReplies(data) :
            /\ Len(inbuf) + Len(reply) <= MaxBuf
            /\ Finish("write_bare", data, ConnWriteBare(Entry, data, reply))

CallRead ==
    /\ pc = "idle"
    /\ Finish("read", <<>>, ConnRead(Entry))

CallReadUntil ==
    /\ pc = "idle"
    /\ \E expected \in ExpectedTokens :
         Finish("read_until", expected, ConnReadUntil(Entry, expected))

NextConn ==
    \/ CallOpen
    \/ CallClose
    \/ CallWrite
    \/ CallWriteBare
    \/ CallRead
    \/ CallReadUntil
    \/ EnvDrop
    \/ EnvReturn

SpecConn == InitConn /\ [][NextConn]_vars

----------------------------------------------------------------------------
(* Calls that change the settings of a SerialConnection                     *)

\* dictionaries given to set_default_parameters, as their items in order
ParamSets ==
    { << Param("timeout", PFloat(1)), Param("write_timeout", PInt(2)),
         Param("baudrate", PInt(115200)), Param("test_key", PStr("value")) >>,
      << Param("test_key1", PStr("value_1")), Param("test_key2", PStr("value_2")),
         Param("inter_byte_timeout", PFloat(10)) >>,
      << Param("key1", PStr("value1")), Param("key2", PStr("value2")) >>,
      << Param("baudrate", PStr("115200")), Param("timeout", PStr("0.1")) >>,
      << Param("write_timeout", PInt(2)), Param("timeout", PStr("abc")),
         Param("inter_byte_timeout", PFloat(10)) >>,
      << Param("xonxoff", PStr("False")), Param("parity", PInt(1)) >>,
      << Param("baudrate", PFloat(10)), Param("timeout", PInt(2)) >>,
      << Param("timeout", PFloat(100)), Param("baudrate", PInt(9600)) >>,
      << >> }

CallSetDefaultParameters ==
    /\ pc = "idle"
    /\ \E params \in ParamSets :
          LET r == SetDefaultParameters(defaults, params)
          IN  /\ defaults' = r.defaults
              /\ result' = [NoResult EXCEPT !.op = "set_default_parameters",
                                            !.arg = params, !.ok = r.ok,
                                            !.type = r.type, !.val = r.val,
                                            !.pre = Snap]
    /\ UNCHANGED <<newline, response_return, serial_speed, group, conn, fd, devPresent,
                   inbuf, log,
                   pc, cur, ports, life>>

CallResetDefaultParameters ==
    /\ pc = "idle"
    /\ defaults' = ResetDefaultParameters(defaults)
    /\ result' = [NoResult EXCEPT !.op = "reset_default_parameters", !.pre = Snap]
    /\ UNCHANGED <<newline, response_return, serial_speed, group, conn, fd, devPresent,
                   inbuf, log,
                   pc, cur, ports, life>>

NextParams ==
    \/ CallSetDefaultParameters
    \/ CallResetDefaultParameters

SpecParams == InitConn /\ [][NextParams]_vars

----------------------------------------------------------------------------
(* Settings changed while a connection is open                              *)

NextTimeout ==
    \/ CallOpen
    \/ CallClose
    \/ CallReadUntil
    \/ CallSetDefaultParameters
    \/ CallResetDefaultParameters

\* a SerialConnection that is opened, read and given other settings
SpecTimeout == InitConn /\ [][NextTimeout]_vars

----------------------------------------------------------------------------
(* The sanitizer applied to raw responses                                   *)

MaxBlank == 1
MaxPayload == 2

\* one line of a raw response and what it is
LineEv(kind, line) == [op |-> kind, data |-> line, done |-> TRUE, n |-> 0]

\* commands given to _sanitize_response: plain, empty, with the terminator on
CliCommands == { <<"cmd">>, <<>>, <<"cmd">> \o response_return }

\* lines a device can answer with: plain text, text with blanks inside and
\* around, the text of the command, text holding the command or the prompt
PayloadLines ==
    { <<"out">>, <<SP, "a", SP, "b">>, <<"cmd">>, <<"cmd", SP, "x">>, <<"x", PROMPT>> }

Payloads == UNION { [1..n -> PayloadLines] : n \in 0..MaxPayload }

\* last lines: the prompt, the prompt after a blank, or no prompt line at all
PromptLines == { <<<<PROMPT>>>>, <<<<SP, PROMPT>>>>, <<>> }

\* the lines of a raw response: blank lines, the echo, blank lines, the payload,
\* the prompt line
RawLines(command, b1, echo, b2, payload, prompt) ==
    [i \in 1..b1 |-> LineEv("blank", <<>>)]
        \o (IF echo THEN <<LineEv("echo", RStripChars(command, Range(response_return)))>>
            ELSE <<>>)
        \o [i \in 1..b2 |-> LineEv("blank", <<SP>>)]
        \o [i \in 1..Len(payload) |-> LineEv("line", payload[i])]
        \o [i \in 1..Len(prompt) |-> LineEv("prompt", prompt[i])]

\* the raw response whose lines the trace holds
RawText == Join([i \in 1..Len(log) |-> log[i].data], response_return)

\* a SerialCli about to sanitize a raw response for a command
PendingSanitize(enter) ==
    /\ newline = enter
    /\ response_return = enter
    /\ serial_speed = SLOW
    /\ group = "-"
    /\ defaults = DEFAULT_SETTINGS
    /\ conn = NoConn
    /\ fd = "none"
    /\ devPresent = FALSE
    /\ inbuf = <<>>
    /\ result = NoResult
    /\ ports = <<>>
    /\ life = [last |-> "none", reopened |-> FALSE]
    /\ pc = "sanitize"
    /\ \E command \in CliCommands, echo \in BOOLEAN, b1 \in 0..MaxBlank,
          b2 \in 0..MaxBlank, payload \in Payloads, prompt \in PromptLines :
          /\ cur = [NoCall EXCEPT !.api = "_sanitize_response", !.command = command]
          /\ log = RawLines(command, b1, echo, b2, payload, prompt)

InitSanitize == \E enter \in LineBreaks : PendingSanitize(enter)

\* _sanitize_response(command, response)
Sanitize ==
    /\ pc = "sanitize"
    /\ pc' = "idle"
    /\ result' = [NoResult EXCEPT !.op = "_sanitize_response", !.arg = RawText,
                                  !.val = SanitizeResponse(cur.command, RawText)]
    /\ UNCHANGED <<cfgVars, conn, fd, devPresent, inbuf, log, cur, ports, life>>

NextSanitize == Sanitize

SpecSanitize == InitSanitize /\ [][NextSanitize]_vars

----------------------------------------------------------------------------
(* The validator applied to payloads                                        *)

MaxLines == 2

\* one line of a payload: whether it has the form of a generic or of a fatal
\* error, and the code and the reason it then reports
ReplyLine(kind, line, code, reason) ==
    [op |-> kind, data |-> line, done |-> TRUE, n |-> 0,
     code |-> code, reason |-> reason]

\* codes of three digits, and of too few and too many
Codes == { <<"4", "1", "0">>, <<"0", "0", "1">>, <<"4", "4">>, <<"4", "1", "0", "0">> }

\* what stands between the ':' and the text
Gaps == { <<>>, <<SP>>, <<SP, SP>> }

Texts == { <<"Error text">>, <<>> }

\* a text that holds a code of its own
SeeAbove == <<"see", SP, "E", "0", "0", "2", ":", SP, "above">>

FatalTexts == { <<"Error text">>, SeeAbove }

\* what stands between '*FATAL' and the 'E' of the code
FatalMiddles == { <<SP, "ERROR", SP>>, <<SP, "E">>, <<>> }

Star(star) == IF star THEN <<"*">> ELSE <<>>

WellFormed(star, code, gap) == star /\ Len(code) = 3 /\ gap # <<>>

\* the reason such a line reports: what follows the first whitespace character
ReasonOf(gap, text) == IF gap = <<>> THEN text ELSE Tail(gap) \o text

\* '*Ennn: Error text' and its near misses
GenericLine(star, code, gap, text) ==
    ReplyLine(IF WellFormed(star, code, gap) THEN "generic" ELSE "other",
              Star(star) \o <<"E">> \o code \o <<":">> \o gap \o text,
              code, ReasonOf(gap, text))

\* '*FATAL ERROR Ennn: Error text' and its near misses; when the first code is
\* not one, the code inside the text is the first that is
FatalLine(star, middle, code, gap, text) ==
    LET line == Star(star) \o <<"FATAL">> \o middle \o <<"E">> \o code \o <<":">>
                    \o gap \o text
    IN  IF WellFormed(star, code, gap)
        THEN ReplyLine("fatal", line, code, ReasonOf(gap, text))
        ELSE IF star /\ text = SeeAbove
        THEN ReplyLine("fatal", line, <<"0", "0", "2">>, <<"above">>)
        ELSE ReplyLine("other", line, code, ReasonOf(gap, text))

PlainLine(line) == ReplyLine("other", line, <<>>, <<>>)

\* one-line payloads, tests/cambrionix/entities/test_cli.py among them
SingleLines ==
    { GenericLine(star, code, gap, text) :
         star \in BOOLEAN, code \in Codes, gap \in Gaps, text \in Texts }
    \cup { FatalLine(star, middle, code, gap, text) :
              star \in BOOLEAN, middle \in FatalMiddles, code \in Codes,
              gap \in Gaps, text \in FatalTexts }
    \cup { PlainLine(InfoLine), PlainLine(<<>>) }

\* lines of the payloads of several lines
SomeLines ==
    { GenericLine(TRUE, <<"4", "1", "0">>, <<SP>>, <<"Error text">>),
      FatalLine(TRUE, <<SP, "ERROR", SP>>, <<"0", "0", "1">>, <<SP>>, <<"Error text">>),
      GenericLine(FALSE, <<"4", "1", "0">>, <<SP>>, <<"Error text">>),
      PlainLine(InfoLine) }

ReplyPayloads ==
    { <<l>> : l \in SingleLines }
        \cup UNION { [1..n -> SomeLines] : n \in 2..MaxLines }

\* a payload about to be validated
PendingValidate(enter) ==
    /\ newline = enter
    /\ response_return = enter
    /\ serial_speed = SLOW
    /\ group = "-"
    /\ defaults = DEFAULT_SETTINGS
    /\ conn = NoConn
    /\ fd = "none"
    /\ devPresent = FALSE
    /\ inbuf = <<>>
    /\ result = NoResult
    /\ ports = <<>>
    /\ life = [last |-> "none", reopened |-> FALSE]
    /\ pc = "validate"
    /\ cur = [NoCall EXCEPT !.api = "validate"]
    /\ log \in ReplyPayloads

InitValidate == \E enter \in LineBreaks : PendingValidate(enter)

\* CliValidator.validate(response)
ValidateResponse ==
    /\ pc = "validate"
    /\ pc' = "idle"
    /\ LET found == Validate(RawText)
       IN  result' = IF found.type = ""
                     THEN [NoResult EXCEPT !.op = "validate", !.arg = RawText]
                     ELSE Outcome("validate", RawText, CommandLineError(World, found),
                                  <<>>, NoSnap)
    /\ UNCHANGED <<cfgVars, conn, fd, devPresent, inbuf, log, cur, ports, life>>

NextValidate == ValidateResponse

SpecValidate == InitValidate /\ [][NextValidate]_vars

----------------------------------------------------------------------------
(* Calls on a UsbHub                                                        *)

MaxPorts == 2

\* indexes the calls are made with
HubIndexes == { PInt(1), PStr("2"), PInt(0 - 1), PList }

\* PortFlags('S', 'A', 'R'), PortFlags('S', 'A', 'R', 'E'), PortFlags('C', 'A')
SomeFlags ==
    { [mode |-> "S", state |-> "A", system |-> <<"R">>],
      [mode |-> "S", state |-> "A", system |-> <<"R", "E">>],
      [mode |-> "C", state |-> "A", system |-> <<>>] }

\* keyword arguments given to update_port
HubKwargs ==
    { <<>>,
      <<Param("index", PInt(2))>>,
      <<Param("colour", PInt(1))>>,
      <<Param("energy", PFloat(2)), Param("profile_id", PInt(0 - 3))>> }
    \cup { <<Param("flags", PFlags(f))>> : f \in SomeFlags }

\* flags search_by_flag is called with
FlagArgs == { <<"D">>, <<"S">>, <<"R">>, <<"E">> }

\* a UsbHub after UsbHub()
PendingHub(enter) ==
    /\ newline = enter
    /\ response_return = enter
    /\ serial_speed = SLOW
    /\ group = "-"
    /\ defaults = DEFAULT_SETTINGS
    /\ conn = NoConn
    /\ fd = "none"
    /\ devPresent = FALSE
    /\ inbuf = <<>>
    /\ result = NoResult
    /\ ports = <<>>
    /\ life = [last |-> "none", reopened |-> FALSE]
    /\ pc = "hub"
    /\ cur = NoCall
    /\ log = <<>>

InitHub == PendingHub(<<CR, LF>>)

\* a call returns or raises: what it was called with, what it found, what it
\* left and whether it warned
HubCall(op, arg, o) ==
    /\ pc = "hub"
    /\ pc' = pc
    /\ cur' = [NoCall EXCEPT !.api = op, !.before = ports]
    /\ ports' = o.ports
    /\ result' = [NoResult EXCEPT !.op = op, !.arg = arg, !.ok = o.ok,
                                  !.type = o.type, !.val = o.val]
    /\ log' = IF o.warned THEN <<[op |-> "warn", data |-> arg[1], done |-> TRUE,
                                  n |-> 0, out |-> <<>>]>>
              ELSE <<>>
    /\ UNCHANGED <<cfgVars, conn, fd, devPresent, inbuf, life>>

CallNewPort ==
    /\ Len(ports) < MaxPorts
    /\ \E v \in HubIndexes : HubCall("new_port", <<v>>, HubNewPort(ports, v))

CallUpdatePort ==
    \E v \in HubIndexes, kwargs \in HubKwargs :
        HubCall("update_port", <<v, kwargs>>, HubUpdatePort(ports, v, kwargs))

CallRemovePort ==
    \E v \in HubIndexes : HubCall("remove_port", <<v>>, HubRemovePort(ports, v))

CallSearchByFlag ==
    \E flag \in FlagArgs :
        HubCall("search_by_flag", <<flag>>, HubDone(ports, SearchByFlag(ports, flag)))

NextHub ==
    \/ CallNewPort
    \/ CallUpdatePort
    \/ CallRemovePort
    \/ CallSearchByFlag

SpecHub == InitHub /\ [][NextHub]_vars

----------------------------------------------------------------------------
(* Construction of a Port and assignments to its attributes                 *)

\* values a Port is constructed with
IndexValues ==
    { PInt(0), PInt(2), PStr("2"), PStr("1000"), PInt(0 - 1), PStr("-1"), PStr("A"),
      PFloat(250), PList, PNone }

\* values assigned to the attributes
AttrValues == { PInt(20), PStr("x"), PInt(0 - 5), PStr("0.05"), PList }

NumericAttribs == { "current_ma", "profile_id", "time_charging", "time_charged", "energy" }

\* port = Port(1)
InitPort ==
    /\ newline = <<CR, LF>>
    /\ response_return = <<CR, LF>>
    /\ serial_speed = SLOW
    /\ group = "-"
    /\ defaults = DEFAULT_SETTINGS
    /\ conn = NoConn
    /\ fd = "none"
    /\ devPresent = FALSE
    /\ inbuf = <<>>
    /\ result = NoResult
    /\ ports = <<NewPortRecord(1)>>
    /\ life = [last |-> "none", reopened |-> FALSE]
    /\ pc = "port"
    /\ cur = NoCall
    /\ log = <<>>

\* Port(index): the port made is what the call returns
CallPort ==
    /\ pc = "port"
    /\ pc' = pc
    /\ \E v \in IndexValues :
          LET made == PortInit(v)
          IN  result' = [NoResult EXCEPT !.op = "Port", !.arg = <<v>>, !.ok = made.ok,
                                        !.type = made.type,
                                        !.val = IF made.ok THEN <<made.port>> ELSE <<>>]
    /\ cur' = [NoCall EXCEPT !.api = "Port", !.before = ports]
    /\ UNCHANGED <<cfgVars, conn, fd, devPresent, inbuf, log, ports, life>>

\* setattr(port, attrib, value) on the attributes that hold numbers
CallSetAttr ==
    /\ pc = "port"
    /\ pc' = pc
    /\ \E attrib \in NumericAttribs, v \in AttrValues :
          LET set == SetAttr(ports[1], attrib, v)
          IN  /\ ports' = <<set.port>>
              /\ result' = [NoResult EXCEPT !.op = "setattr", !.arg = <<attrib, v>>,
                                            !.ok = set.ok, !.type = set.type]
    /\ cur' = [NoCall EXCEPT !.api = "setattr", !.before = ports]
    /\ UNCHANGED <<cfgVars, conn, fd, devPresent, inbuf, log, life>>

NextPort ==
    \/ CallPort
    \/ CallSetAttr

SpecPort == InitPort /\ [][NextPort]_vars


----------------------------------------------------------------------------
(* The parser applied to payloads of state rows                             *)

MaxRows == 2

\* the text of a flags field: its tokens with blanks between
FlagField(tokens) == Join([i \in 1..Len(tokens) |-> <<tokens[i]>>], <<SP>>)

\* a line of the payload: its text, what kind of line it is, its stripped
\* fields and the tokens of its flags field
ParsedLine(kind, fields, tokens) ==
    [op |-> kind, data |-> Join(fields, <<COMMA, SP>>), done |-> TRUE, n |-> 0,
     fields |-> fields, tokens |-> tokens]

\* 'i, 0946, <flags>, 0, 0, x, 0.00'
FlaggedLine(kind, i, tokens) ==
    ParsedLine(kind, <<<<i>>, <<"0946">>, FlagField(tokens), <<"0">>, <<"0">>, <<"x">>,
                       <<"0.00">>>>, tokens)

\* flags as the device writes them: system flags, state, mode
DeviceFlags == { <<"D", "O">>, <<"R", "A", "S">>, <<"T", "R", "A", "S">> }

\* flags fields that are not flags: too few tokens, a token that is no mode,
\* no state, no system flag
BadFlags == { <<>>, <<"O">>, <<"D", "X">>, <<"Q", "O">>, <<"Z", "D", "O">>, <<"O", "D">> }

\* lines with too few and too many fields
BadCounts ==
    { <<<<>>>>,
      <<<<"1">>, <<"0946">>, <<"D", SP, "O">>, <<"0">>, <<"0">>, <<"x">>>>,
      <<<<"1">>, <<"0946">>, <<"D", SP, "O">>, <<"0">>, <<"0">>, <<"x">>, <<"0.00">>,
        <<"7">>>> }

StateLines ==
    { FlaggedLine("row", i, t) : i \in HubPorts, t \in DeviceFlags }
    \cup { FlaggedLine("flags", "1", t) : t \in BadFlags }
    \cup { ParsedLine("count", f, <<>>) : f \in BadCounts }

StatePayloads == UNION { [1..n -> StateLines] : n \in 0..MaxRows }

\* a payload about to be parsed
InitParse ==
    /\ newline = <<CR, LF>>
    /\ response_return = <<CR, LF>>
    /\ serial_speed = SLOW
    /\ group = "-"
    /\ defaults = DEFAULT_SETTINGS
    /\ conn = NoConn
    /\ fd = "none"
    /\ devPresent = FALSE
    /\ inbuf = <<>>
    /\ result = NoResult
    /\ ports = <<>>
    /\ life = [last |-> "none", reopened |-> FALSE]
    /\ pc = "process"
    /\ cur = [NoCall EXCEPT !.api = "process"]
    /\ log \in StatePayloads

\* list(StateParser(response).process())
Process ==
    /\ pc = "process"
    /\ pc' = "idle"
    /\ LET o == ProcessRows(ParserRows(RawText), 1, <<>>)
       IN  result' = [NoResult EXCEPT !.op = "process", !.arg = RawText, !.ok = o.ok,
                                     !.type = o.type, !.msg = o.msg, !.val = o.val]
    /\ UNCHANGED <<cfgVars, conn, fd, devPresent, inbuf, log, cur, ports, life>>

NextParse == Process

SpecParse == InitParse /\ [][NextParse]_vars

----------------------------------------------------------------------------
(* Cambrionix._set_state applied to payloads of state rows                  *)

\* lines of the responses: rows of the ports 1 and 2, a row whose flags are no
\* flags, a row with a field too few
QueryLines ==
    { FlaggedLine("row", "1", <<"D", "O">>), FlaggedLine("row", "1", <<"R", "A", "S">>),
      FlaggedLine("row", "2", <<"R", "A", "S">>), FlaggedLine("flags", "1", <<"D", "X">>),
      ParsedLine("count", <<<<"2">>, <<"0946">>, <<"D", SP, "O">>, <<"0">>, <<"0">>,
                            <<"x">>>>, <<>>) }

\* responses of no, one and two lines
QueryPayloads ==
    { <<>> } \cup { <<a>> : a \in QueryLines } \cup { <<a, b>> : a, b \in QueryLines }

\* the response whose lines are given
PayloadText(lines) == Join([i \in 1..Len(lines) |-> lines[i].data], ParserNewline)

\* self._set_state(): the response of the state command is parsed and merged
\* into the registry; the trace keeps the lines of the response
CallSetState ==
    /\ pc = "hub"
    /\ pc' = pc
    /\ \E lines \in QueryPayloads :
          LET response == PayloadText(lines)
              st == SetState(ports, ParserRows(response), 1)
          IN  /\ ports' = st.ports
              /\ log' = lines
              /\ cur' = [NoCall EXCEPT !.api = "_set_state", !.response = response,
                                       !.before = ports]
              /\ result' = [NoResult EXCEPT !.op = "_set_state", !.arg = response,
                                            !.ok = st.ok, !.type = st.type]
    /\ UNCHANGED <<cfgVars, conn, fd, devPresent, inbuf, life>>

NextRegistry ==
    \/ CallSetState
    \/ CallRemovePort

SpecRegistry == InitHub /\ [][NextRegistry]_vars

----------------------------------------------------------------------------
(* TerminalCommands.mode and PortFlags.__eq__ applied to their arguments    *)

\* mode tokens: the names of Mode, the names the documentation of set_mode
\* gives, names in other letter cases, single letters
ModeTokens ==
    { "OFF", "SYNC", "BIASSED", "CHARGE", "BIASED", "CHARGED", "off", "Off", "sync",
      "Sync", "S", "s", "O", "b" }

\* PortFlags instances that are compared
ComparedFlags ==
    { [mode |-> m, state |-> st, system |-> sys] :
         m \in { "O", "S" }, st \in { "A", "D" },
         sys \in { <<>>, <<"R">>, <<"R", "E">>, <<"E", "R">>, <<"T">> } }

\* a call of one of the two about to be made
InitEntities ==
    /\ newline = <<CR, LF>>
    /\ response_return = <<CR, LF>>
    /\ serial_speed = SLOW
    /\ group = "-"
    /\ defaults = DEFAULT_SETTINGS
    /\ conn = NoConn
    /\ fd = "none"
    /\ devPresent = FALSE
    /\ inbuf = <<>>
    /\ result = NoResult
    /\ ports = <<>>
    /\ life = [last |-> "none", reopened |-> FALSE]
    /\ pc = "call"
    /\ log = <<>>
    /\ \/ \E name \in ModeTokens, port \in { "None", "1", "2" } :
             cur = [NoCall EXCEPT !.api = "mode", !.command = <<name>>, !.port = port]
       \/ \E a \in ComparedFlags, b \in ComparedFlags :
             cur = [NoCall EXCEPT !.api = "__eq__", !.command = <<a, b>>]

\* TerminalCommands.mode(mode, port)
CallMode ==
    /\ pc = "call"
    /\ cur.api = "mode"
    /\ pc' = "idle"
    /\ result' = [NoResult EXCEPT !.op = "mode", !.arg = <<cur.command[1], cur.port>>,
                                  !.val = CmdMode(cur.command[1], cur.port)]
    /\ UNCHANGED <<cfgVars, conn, fd, devPresent, inbuf, log, cur, ports, life>>

\* first == second on two PortFlags
CallFlagsEq ==
    /\ pc = "call"
    /\ cur.api = "__eq__"
    /\ pc' = "idle"
    /\ result' = [NoResult EXCEPT !.op = "__eq__", !.arg = cur.command,
                                  !.val = FlagsEq(cur.command[1], cur.command[2])]
    /\ UNCHANGED <<cfgVars, conn, fd, devPresent, inbuf, log, cur, ports, life>>

NextEntities ==
    \/ CallMode
    \/ CallFlagsEq

SpecEntities == InitEntities /\ [][NextEntities]_vars

----------------------------------------------------------------------------
(* Construction of PortFlags and assignments to its properties              *)

\* values given for the mode and the state, and assigned to the properties
FlagValues ==
    { PStr("S"), PStr("P"), PStr("A"), PStr("T"), PStr("ET"), PStr("r r"), PStr(""),
      PStr("X"), PNone, PList, PTuple(<<"R", "E">>), PTuple(<<"R", "X">>) }

\* values given for the mode and the state at construction
CtorFlagValues == { PStr("O"), PStr("C"), PStr("D"), PStr("X"), PNone, PList }

\* *system at construction
SystemArgs == { PTuple(<<>>), PTuple(<<"T">>), PTuple(<<"r", "E">>), PTuple(<<"ET">>) }

FlagFields == { "mode", "state", "system" }

\* port = Port(1); port.flags is PortFlags('O', 'D')
InitFlags ==
    /\ newline = <<CR, LF>>
    /\ response_return = <<CR, LF>>
    /\ serial_speed = SLOW
    /\ group = "-"
    /\ defaults = DEFAULT_SETTINGS
    /\ conn = NoConn
    /\ fd = "none"
    /\ devPresent = FALSE
    /\ inbuf = <<>>
    /\ result = NoResult
    /\ ports = <<NewPortRecord(1)>>
    /\ life = [last |-> "none", reopened |-> FALSE]
    /\ pc = "flags"
    /\ cur = NoCall
    /\ log = <<>>

\* PortFlags(mode, state, *system): the instance made is what the call returns
CallPortFlags ==
    /\ pc = "flags"
    /\ pc' = pc
    /\ \E mode \in CtorFlagValues, state \in CtorFlagValues, system \in SystemArgs :
          LET made == PortFlagsInit(mode, state, system)
          IN  result' = [NoResult EXCEPT !.op = "PortFlags",
                                        !.arg = <<mode, state, system>>,
                                        !.ok = made.ok, !.type = made.type,
                                        !.val = IF made.ok THEN <<made.flags>> ELSE <<>>]
    /\ cur' = [NoCall EXCEPT !.api = "PortFlags", !.before = ports]
    /\ UNCHANGED <<cfgVars, conn, fd, devPresent, inbuf, log, ports, life>>

\* setattr(port.flags, field, value)
CallSetFlag ==
    /\ pc = "flags"
    /\ pc' = pc
    /\ \E field \in FlagFields, v \in FlagValues :
          LET set == FlagsSetAttr(ports[1].flags, field, v)
          IN  /\ ports' = <<[ports[1] EXCEPT !.flags = set.flags]>>
              /\ result' = [NoResult EXCEPT !.op = "setflag", !.arg = <<field, v>>,
                                            !.ok = set.ok, !.type = set.type]
    /\ cur' = [NoCall EXCEPT !.api = "setflag", !.before = ports]
    /\ UNCHANGED <<cfgVars, conn, fd, devPresent, inbuf, log, life>>

NextFlags ==
    \/ CallPortFlags
    \/ CallSetFlag

SpecFlags == InitFlags /\ [][NextFlags]_vars

----------------------------------------------------------------------------
(* Port.__eq__ (entities/hub.py), CambrionixCli.serial_speed                *)
(* (entities/cli.py) and System.group (entities/system.py)                  *)

\* a Port instance as a value
PPort(port) == [kind |-> "port", num |-> 0, text |-> "", port |-> port]

\* variant: __eq__ that compares every attribute
PortEqAttribs(self, other) ==
    IF other.kind # "port" THEN FALSE ELSE self = other.port

\* Port.__eq__(self, other)
PortEq(self, other) ==
    IF other.kind # "port" THEN FALSE ELSE self.index = other.port.index

\* Port.__ne__(self, other)
PortNe(self, other) == ~PortEq(self, other)

\* Speed.__members__
SpeedNames == { "slow", "fast" }

\* Speed.rate(name)
SpeedRate(name) == IF name = "slow" THEN SLOW ELSE FAST

\* a property setter returned, or raised ValueError and stored nothing
Stored(value) == [ok |-> TRUE, type |-> "", value |-> value]
Refused(value) == [ok |-> FALSE, type |-> "ValueError", value |-> value]

\* variant: serial_speed setter that takes the rate as well as its name
SetSerialSpeedRate(stored, speed) ==
    IF speed.kind = "str" /\ speed.text \in SpeedNames THEN Stored(SpeedRate(speed.text))
    ELSE IF speed.kind = "int" /\ speed.num \in { SLOW, FAST } THEN Stored(speed.num)
    ELSE Refused(stored)

\* serial_speed setter of CambrionixCli
SetSerialSpeed(stored, speed) ==
    IF speed.kind # "str" \/ speed.text \notin SpeedNames THEN Refused(stored)
    ELSE Stored(SpeedRate(speed.text))

\* System.GROUP_VALUES: a tuple of two texts, '-' and string.ascii_uppercase[:15]
GROUP_VALUES == { "-", "ABCDEFGHIJKLMNO" }

\* group setter of System: 'value not in GROUP_VALUES' compares the value with
\* the two members of the tuple
SetGroup(stored, value) ==
    IF value.kind = "str" /\ value.text \in GROUP_VALUES THEN Stored(value.text)
    ELSE Refused(stored)

\* Port instances that are compared
ComparedPorts ==
    { NewPortRecord(1), [NewPortRecord(1) EXCEPT !.energy = 2],
      [NewPortRecord(2) EXCEPT !.profile_id = 1],
      [NewPortRecord(3) EXCEPT !.profile_id = 1] }

\* what a Port is compared with
ComparedValues ==
    { PPort(p) : p \in ComparedPorts } \cup { PList, PNone, PInt(1), PStr("1") }

\* values given as serial_speed
SpeedValues ==
    { PStr("slow"), PStr("fast"), PStr("medium"), PStr("SLOW"), PStr("115200"),
      PInt(SLOW), PInt(FAST), PInt(9600), PNone }

\* values given as group
GroupArgs ==
    { PStr("-"), PStr("A"), PStr("H"), PStr("O"), PStr("P"), PStr("a"), PStr(""),
      PStr("AB"), PStr("ABCDEFGHIJKLMNO"), PNone, PInt(1) }

\* a Cambrionix CLI made with its defaults and a System snapshot with group '-'
InitAttrs ==
    /\ Init
    /\ ~devPresent

\* what the object attributes hold when a call begins
Attrs == [serial_speed |-> serial_speed, group |-> group, defaults |-> defaults]

AttrCall(op, arg, ok, type, val) ==
    /\ pc = "idle"
    /\ pc' = pc
    /\ result' = [NoResult EXCEPT !.op = op, !.arg = arg, !.ok = ok, !.type = type,
                                  !.val = val, !.pre = Snap]
    /\ cur' = [NoCall EXCEPT !.api = op, !.before = <<Attrs>>]
    /\ UNCHANGED <<newline, response_return, fd, devPresent, inbuf, log, ports, life>>

\* first == second and first != second on a Port and a value
CallPortEq ==
    \E first \in ComparedPorts, second \in ComparedValues :
       /\ AttrCall("Port.__eq__", <<first, second>>, TRUE, "",
                   <<PortEq(first, second), PortNe(first, second)>>)
       /\ UNCHANGED <<defaults, serial_speed, group, conn>>

\* CambrionixCli(port, serial_speed=speed): the setter, then SerialCli.__init__
\* with baudrate=self.serial_speed, which leaves _conn = None
CallCambrionixCli ==
    \E speed \in SpeedValues :
       LET set == SetSerialSpeed(serial_speed, speed)
       IN  /\ AttrCall("CambrionixCli", <<speed>>, set.ok, set.type, <<>>)
           /\ serial_speed' = set.value
           /\ IF set.ok
              THEN /\ defaults' = SetDefaultParameters(
                                     DEFAULT_SETTINGS,
                                     <<Param("baudrate", PInt(set.value))>>).defaults
                   /\ conn' = NoConn
              ELSE UNCHANGED <<defaults, conn>>
           /\ UNCHANGED group

\* cli.serial_speed = speed
CallSetSerialSpeed ==
    \E speed \in SpeedValues :
       LET set == SetSerialSpeed(serial_speed, speed)
       IN  /\ AttrCall("serial_speed", <<speed>>, set.ok, set.type, <<>>)
           /\ serial_speed' = set.value
           /\ UNCHANGED <<defaults, group, conn>>

\* System(hardware, firmware, compiled, group=value) with valid other arguments
CallSystem ==
    \E value \in GroupArgs :
       LET set == SetGroup(group, value)
       IN  /\ AttrCall("System", <<value>>, set.ok, set.type, <<>>)
           /\ group' = set.value
           /\ UNCHANGED <<defaults, serial_speed, conn>>

\* system.group = value
CallSetGroup ==
    \E value \in GroupArgs :
       LET set == SetGroup(group, value)
       IN  /\ AttrCall("group", <<value>>, set.ok, set.type, <<>>)
           /\ group' = set.value
           /\ UNCHANGED <<defaults, serial_speed, conn>>

NextAttrs ==
    \/ CallPortEq
    \/ CallCambrionixCli
    \/ CallSetSerialSpeed
    \/ CallSystem
    \/ CallSetGroup

SpecAttrs == InitAttrs /\ [][NextAttrs]_vars

----------------------------------------------------------------------------
(* Cambrionix and the cbrxcommand dispatcher, cambrionix.py                 *)

R_DELAY == 10
M_DELAY == 11

\* variant: every category settles for the reboot delay
SecondsReboot(api) == R_DELAY

\* getattr(self.__class__, str(delay)), 0.0 when the decorator names no delay
Seconds(api) ==
    CASE api = "reboot" -> R_DELAY
      [] api = "set_mode" -> M_DELAY
      [] OTHER -> 0

PortArgs == { "None", "1", "2", "9" }
ModeArgs == { "OFF", "SYNC", "BIASED" }

\* the decorated methods with the arguments the model calls them with
ApiCalls ==
    { [api |-> a, mode |-> "", port |-> "None", watchdog |-> FALSE] :
          a \in { "help", "system", "health", "limits", "cef", "crf" } }
    \cup { [api |-> "reboot", mode |-> "", port |-> "None", watchdog |-> b] :
          b \in BOOLEAN }
    \cup { [api |-> "show_state", mode |-> "", port |-> p, watchdog |-> FALSE] :
          p \in PortArgs }
    \cup { [api |-> "set_mode", mode |-> m, port |-> p, watchdog |-> FALSE] :
          m \in ModeArgs, p \in { "None", "1" } }

\* command = func(self, *args, **kwargs)
CommandOf(c) ==
    CASE c.api = "reboot" -> CmdReboot(c.watchdog)
      [] c.api = "show_state" -> CmdState(c.port)
      [] c.api = "set_mode" -> CmdMode(c.mode, c.port)
      [] OTHER -> <<c.api>>

\* what the wrapper itself does, in the same trace as the transport's I/O
Ev(op, data, n) == [op |-> op, data |-> data, done |-> TRUE, n |-> n, out |-> <<>>]

\* variant: the recovery sends the failed command again
ResendCommand(command) == command

\* the text handed to send_command by the recovery: self.serial.send_command('')
Resend(command) == <<>>

Sending == IF cur.phase = 1 THEN cur.command ELSE Resend(cur.command)

\* variant: every SerialConnectionError starts the recovery
RecoverableAny(type, msg) == IsSerialConnectionError(type)

\* except SerialConnectionError as e: 'Device not configured' in str(e)
Recoverable(type, msg) ==
    IsSerialConnectionError(type) /\ Contains(msg, <<DNC>>)

\* the exception leaves the wrapper and the public method
Propagate(o) ==
    /\ SetWorld(o.w)
    /\ result' = Outcome(cur.api, <<cur.port>>, o, <<>>, Snap)
    /\ pc' = "idle"
    /\ UNCHANGED <<cfgVars, devPresent, ports>>

\* variant: the resend is guarded like the first send
SendFailedRetry(o) ==
    /\ cur' = [cur EXCEPT !.caught = [type |-> o.type, msg |-> o.msg]]
    /\ IF Recoverable(o.type, o.msg)
       THEN /\ SetWorld(o.w)
            /\ pc' = "stop"
            /\ UNCHANGED <<cfgVars, devPresent, result, ports>>
       ELSE Propagate(o)

\* an exception raised by send_command: inside the wrapper's try on the first
\* send, inside the except clause (where nothing catches it) on the resend
SendFailed(o) ==
    IF cur.phase = 1
    THEN /\ cur' = [cur EXCEPT !.caught = [type |-> o.type, msg |-> o.msg]]
         /\ IF Recoverable(o.type, o.msg)
            THEN /\ SetWorld(o.w)
                 /\ pc' = "stop"
                 /\ UNCHANGED <<cfgVars, devPresent, result, ports>>
            ELSE Propagate(o)
    ELSE /\ cur' = cur
         /\ Propagate(o)

\* a decorated method is called
Invoke ==
    /\ pc = "idle"
    /\ \E c \in ApiCalls :
          cur' = [api |-> c.api, command |-> CommandOf(c), seconds |-> Seconds(c.api),
                  port |-> c.port, phase |-> 1, response |-> <<>>, caught |-> NoError,
                  before |-> ports]
    /\ pc' = "read"
    /\ log' = <<>>
    /\ result' = NoResult
    /\ UNCHANGED <<cfgVars, conn, fd, devPresent, inbuf, ports, life>>

\* send_command, _send_command: self._conn.read()
SendRead ==
    /\ pc = "read"
    /\ life' = life
    /\ LET o == ConnRead([World EXCEPT !.io = Append(@, Ev("send", Sending, 0))])
       IN  IF o.ok
           THEN /\ SetWorld(o.w)
                /\ pc' = "write"
                /\ UNCHANGED <<cfgVars, devPresent, result, cur, ports>>
           ELSE SendFailed(o)

\* _send_command: self._conn.write(command, encoding)
SendWrite ==
    /\ pc = "write"
    /\ life' = life
    /\ \E reply \in DeviceReplies(Sending \o newline) :
          LET o == ConnWrite(World, Sending, reply)
          IN  IF o.ok
              THEN /\ SetWorld(o.w)
                   /\ pc' = "prompt"
                   /\ UNCHANGED <<cfgVars, devPresent, result, cur, ports>>
              ELSE SendFailed(o)

\* _send_command: read_until(prompt), _sanitize_response; send_command: validate
SendPrompt ==
    /\ pc = "prompt"
    /\ life' = life
    /\ LET o == ConnReadUntil(World, <<PROMPT>>)
           sent == SendCommand(o.w, SanitizeResponse(Sending, o.val))
       IN  IF ~o.ok THEN SendFailed(o)
           ELSE IF ~sent.ok THEN SendFailed(sent)
           ELSE /\ SetWorld(o.w)
                /\ cur' = [cur EXCEPT !.response = sent.val]
                /\ pc' = IF cur.phase = 1 THEN "sleep" ELSE "return"
                /\ UNCHANGED <<cfgVars, devPresent, result, ports>>

\* else: time.sleep(seconds)
SleepAfterSend ==
    /\ pc = "sleep"
    /\ log' = Append(log, Ev("sleep", <<>>, cur.seconds))
    /\ pc' = "return"
    /\ UNCHANGED <<cfgVars, conn, fd, devPresent, inbuf, result, cur, ports, life>>

\* self.log('... trying to recover ...'); self.serial.stop()
RecoverStop ==
    /\ pc = "stop"
    /\ LET traced == Append(Append(log, Ev("recover", cur.caught.msg, cur.seconds)),
                            Ev("stop", <<>>, 0))
       IN  SetWorld(ConnClose([World EXCEPT !.io = traced]).w)
    /\ life' = Closed
    /\ pc' = "rsleep"
    /\ UNCHANGED <<cfgVars, devPresent, result, cur, ports>>

\* time.sleep(seconds) of the recovery
RecoverSleep ==
    /\ pc = "rsleep"
    /\ log' = Append(log, Ev("sleep", <<>>, cur.seconds))
    /\ pc' = "start"
    /\ UNCHANGED <<cfgVars, conn, fd, devPresent, inbuf, result, cur, ports, life>>

\* self.serial.start()
RecoverStart ==
    /\ pc = "start"
    /\ LET o == ConnOpen([World EXCEPT !.io = Append(@, Ev("start", <<>>, 0))],
                         devPresent)
       IN  IF o.ok
           THEN /\ SetWorld(o.w)
                /\ life' = Opened
                /\ cur' = [cur EXCEPT !.phase = 2]
                /\ pc' = "read"
                /\ UNCHANGED <<cfgVars, devPresent, result, ports>>
           ELSE /\ life' = life
                /\ cur' = cur
                /\ Propagate(o)

\* variant: show_state that renders the whole registry whatever it was asked
ShownAll(plist, port) == SortedPorts(plist)

\* what show_state renders: the requested port (None when it is not registered)
\* or the whole registry
Shown(plist, port) ==
    IF port = "None" THEN SortedPorts(plist)
    ELSE LET at == SearchByIndex(plist, IntOf(port))
         IN  IF at = 0 THEN <<>> ELSE <<plist[at]>>

\* return response, and what the public method does with it
Return ==
    /\ pc = "return"
    /\ pc' = "idle"
    /\ log' = Append(log, Ev("return", cur.response, 0))
    /\ IF cur.api = "show_state"
       THEN LET st == SetState(ports, ParserRows(cur.response), 1)
                shown == Shown(st.ports, cur.port)
            IN  /\ ports' = st.ports
                /\ result' = IF st.ok
                             THEN Outcome(cur.api, <<cur.port>>,
                                     Returned(World, IF shown = <<>> /\ cur.port # "None"
                                                     THEN <<"None">> ELSE <<>>),
                                     shown, NoSnap)
                             ELSE Outcome(cur.api, <<cur.port>>,
                                     Raised(World, st.type, <<>>), <<>>, NoSnap)
       ELSE /\ ports' = ports
            /\ result' = Outcome(cur.api, <<cur.port>>,
                            Returned(World, IF cur.api \in {"reboot", "set_mode"}
                                            THEN <<>> ELSE cur.response), <<>>, NoSnap)
    /\ UNCHANGED <<cfgVars, conn, fd, devPresent, inbuf, cur, life>>

\* connect(): self.serial.start()
Connect ==
    /\ pc = "idle"
    /\ cur' = NoCall
    /\ pc' = pc
    /\ LET o == ConnOpen(Entry, devPresent)
       IN  /\ SetWorld(o.w)
           /\ result' = Outcome("connect", <<>>, o, <<>>, Snap)
           /\ life' = IF o.ok THEN Opened ELSE life
    /\ UNCHANGED <<cfgVars, devPresent, ports>>

\* disconnect(): self.serial.stop()
Disconnect ==
    /\ pc = "idle"
    /\ cur' = NoCall
    /\ pc' = pc
    /\ LET o == ConnClose(Entry)
       IN  /\ SetWorld(o.w)
           /\ result' = Outcome("disconnect", <<>>, o, <<>>, Snap)
           /\ life' = Closed
    /\ UNCHANGED <<cfgVars, devPresent, ports>>

Next ==
    \/ Connect
    \/ Disconnect
    \/ Invoke
    \/ SendRead
    \/ SendWrite
    \/ SendPrompt
    \/ SleepAfterSend
    \/ RecoverStop
    \/ RecoverSleep
    \/ RecoverStart
    \/ Return
    \/ EnvDrop
    \/ EnvReturn

Spec == Init /\ [][Next]_vars

\* the end of an answer that was cut short, arriving when its command is over
LateInput == <<"late">> \o response_return \o <<PROMPT>>

\* between two calls the device delivers what it still had to say
EnvLate ==
    /\ pc = "idle"
    /\ fd = "alive"
    /\ inbuf = <<>>
    /\ inbuf' = LateInput
    /\ Observed
    /\ UNCHANGED <<cfgVars, conn, fd, devPresent, pc, ports, life>>

NextLate ==
    \/ Next
    \/ EnvLate

\* the dispatcher on a line where input can be pending when a command begins
SpecLate == Init /\ [][NextLate]_vars

----------------------------------------------------------------------------
(* The trace of a dispatcher call                                           *)

WrapperOps == { "send", "recover", "stop", "sleep", "start", "return" }

IsWrapperStep(e) == e.op \in WrapperOps

\* the wrapper's own steps, in order, without the I/O between them
Steps == SelectSeq(log, IsWrapperStep)

Kinds == [i \in 1..Len(Steps) |-> Steps[i].op]

Count(op) == Cardinality({ i \in 1..Len(log) : log[i].op = op })

IsPrefix(s, t) == Len(s) <= Len(t) /\ s = SubSeq(t, 1, Len(s))

\* position of the first op in the trace, 0 when there is none
First(op) ==
    IF Count(op) = 0 THEN 0
    ELSE CHOOSE i \in 1..Len(log) :
            /\ log[i].op = op
            /\ \A j \in 1..(i - 1) : log[j].op # op

\* a decorated method has been called and has returned or raised
Finished == pc = "idle" /\ cur.phase > 0

RecoveryKinds == << "send", "recover", "stop", "sleep", "start", "send", "return" >>

PlainKinds == << "send", "sleep", "return" >>

----------------------------------------------------------------------------
(* Dispatcher claims                                                        *)

\* C1: a call whose first send fails with a SerialConnectionError carrying
\* 'Device not configured' goes through one stop, one start and one resend and
\* no more; when the start or the resend fails, the call ends there with that
\* failure, nothing of the cycle being repeated.
C1_OneRecoveryCycle ==
    /\ Count("recover") <= 1
    /\ Count("stop") <= 1
    /\ Count("start") <= 1
    /\ Count("send") <= 2
    /\ IsPrefix(Kinds, RecoveryKinds) \/ IsPrefix(Kinds, PlainKinds)
    /\ (Finished /\ Recoverable(cur.caught.type, cur.caught.msg)) =>
          /\ Count("stop") = 1
          /\ Count("start") = 1
          /\ \/ /\ Kinds = SubSeq(RecoveryKinds, 1, 5)
                /\ ~result.ok
                /\ result.msg = CouldNotOpenMsg
             \/ /\ Kinds = SubSeq(RecoveryKinds, 1, 6)
                /\ ~result.ok
                /\ log[Len(log)].op \in { "read_all", "write", "read_until" }
             \/ Kinds = RecoveryKinds

\* C1 happens: the resend of a recovery failed with the disconnection again and
\* that failure reached the caller
C1_Witness ==
    /\ Finished
    /\ Kinds = SubSeq(RecoveryKinds, 1, 6)
    /\ ~result.ok
    /\ Recoverable(result.type, result.msg)

\* C2: a SerialConnectionError of the first send without 'Device not configured'
\* in its message (a SerialNoMatchError, 'No Serial connection open', an I/O
\* error) reaches the caller as it was raised, and the wrapper has not stopped or
\* started the transport, slept or sent anything else.
C2_OtherErrorsPropagate ==
    (/\ Finished
     /\ IsSerialConnectionError(cur.caught.type)
     /\ ~Contains(cur.caught.msg, <<DNC>>)) =>
        /\ ~result.ok
        /\ result.type = cur.caught.type
        /\ result.msg = cur.caught.msg
        /\ Kinds = << "send" >>
        /\ Steps[1].data = cur.command

\* C2 happens: the timeout of a read reached the caller
C2_Witness ==
    /\ Finished
    /\ cur.caught.type = "SerialNoMatchError"
    /\ result.type = "SerialNoMatchError"

\* the trace of a complete recovery, from the moment the error is caught
RecoveryTrace ==
    << [op |-> "recover", data |-> cur.caught.msg, n |-> cur.seconds],
       [op |-> "stop", data |-> <<>>, n |-> 0],
       [op |-> "sleep", data |-> <<>>, n |-> cur.seconds],
       [op |-> "start", data |-> <<>>, n |-> 0],
       [op |-> "send", data |-> <<>>, n |-> 0],
       [op |-> "read_all", data |-> <<>>, n |-> 0],
       [op |-> "write", data |-> newline, n |-> 0],
       [op |-> "read_until", data |-> newline, n |-> 0],
       [op |-> "read_until", data |-> <<PROMPT>>, n |-> 0],
       [op |-> "return", data |-> <<>>, n |-> 0] >>

\* the trace from the recovery on, without the success of each step
SinceRecover ==
    IF First("recover") = 0 THEN <<>>
    ELSE [i \in 1..(Len(log) - First("recover") + 1) |->
            LET e == log[First("recover") + i - 1]
            IN  [op |-> e.op, data |-> e.data, n |-> e.n]]

\* C3: the recovery stops the transport, sleeps the delay of the command's
\* category, starts the transport and sends one empty command, in this order;
\* the only thing written after the failure is the line terminator of the empty
\* command, so the failed command is written at most once in the whole call.
C3_RecoveryOrder ==
    /\ IsPrefix(SinceRecover, RecoveryTrace)
    /\ cur.phase > 0 => cur.seconds = Seconds(cur.api)
    /\ cur.command # <<>> =>
          Cardinality({ i \in 1..Len(log) :
                           /\ log[i].op = "write"
                           /\ Contains(log[i].data, cur.command) }) <= 1

\* C3 happens: a reboot was recovered through the whole cycle, after the command
\* had been written
C3_Witness ==
    /\ Finished
    /\ cur.api = "reboot"
    /\ SinceRecover = RecoveryTrace
    /\ \E i \in 1..First("recover") : log[i].op = "write" /\ log[i].done

\* C4, as the specification states it: a show_state whose send hit the
\* disconnection and whose stop, start and resend all succeeded returns the
\* rendering of the port or of the registry.  The code does not do this: the
\* response it parses is the one to the empty command.
C4_TransparentShowState ==
    (/\ Finished
     /\ cur.api = "show_state"
     /\ Count("recover") = 1
     /\ Count("return") = 1) =>
        /\ result.ok
        /\ result.rendered # <<>> \/ result.val = <<"None">>

\* C5: a call whose first send succeeds sleeps once, after the send and before it
\* returns, M_DELAY seconds for set_mode, R_DELAY for reboot and 0 for the other
\* categories; a call that ends with an error of the first send never sleeps.
C5_SettleDelay ==
    /\ (pc \in { "sleep", "return" } /\ cur.phase = 1) =>
          /\ Kinds = IF pc = "sleep" THEN << "send" >> ELSE << "send", "sleep" >>
    /\ (Count("return") = 1 /\ Count("recover") = 0) =>
          /\ Kinds = PlainKinds
          /\ log[Len(log) - 1].op = "sleep"
          /\ log[Len(log) - 2].op = "read_until"
          /\ log[Len(log) - 2].data = <<PROMPT>>
          /\ log[Len(log) - 2].done
          /\ log[Len(log) - 1].n =
                CASE cur.api = "set_mode" -> M_DELAY
                  [] cur.api = "reboot" -> R_DELAY
                  [] cur.api \in { "help", "limits", "health", "system",
                                   "show_state", "cef", "crf" } -> 0
    /\ (Finished /\ ~result.ok /\ Count("return") = 0 /\ Count("recover") = 0) =>
          Count("sleep") = 0

\* C5 happens: a set_mode returned after its settle delay
C5_Witness ==
    /\ Finished
    /\ cur.api = "set_mode"
    /\ result.ok
    /\ Kinds = PlainKinds
    /\ Steps[2].n = M_DELAY

----------------------------------------------------------------------------
(* Transport claims                                                         *)

WasOpen == result.pre.conn.present /\ result.pre.conn.is_open

IsOpen == conn.present /\ conn.is_open

\* C6: open() on an open transport raises SerialConnectionError and the session
\* stays as it was: same handle, same pending input, still open; open() on a
\* closed transport whose device cannot be opened raises SerialConnectionError
\* and the transport stays closed.
C6_OpenFailures ==
    /\ (result.op = "open" /\ WasOpen) =>
          /\ ~result.ok
          /\ result.type = "SerialConnectionError"
          /\ result.msg = AlreadyOpenMsg
          /\ IsOpen
          /\ fd = result.pre.fd
          /\ inbuf = result.pre.inbuf
    /\ (result.op = "open" /\ ~WasOpen /\ ~result.pre.dev) =>
          /\ ~result.ok
          /\ result.type = "SerialConnectionError"
          /\ conn = NoConn
          /\ fd = "none"

\* C6 happens: open() was refused on a live session that had input pending
C6_Witness ==
    /\ result.op = "open"
    /\ WasOpen
    /\ result.pre.fd = "alive"
    /\ result.pre.inbuf # <<>>
    /\ ~result.ok

\* C7: close() returns normally from every state and leaves the transport
\* closed; on a closed transport it changes nothing, so a second close() in a row
\* has no further effect.
C7_CloseIdempotent ==
    /\ result.op = "close" =>
          /\ result.ok
          /\ conn = NoConn
          /\ fd = "none"
          /\ inbuf = <<>>
    /\ (result.op = "close" /\ ~result.pre.conn.present) =>
          /\ conn = result.pre.conn
          /\ fd = result.pre.fd
          /\ inbuf = result.pre.inbuf
    /\ ConnClose(World).ok
    /\ ConnClose(ConnClose(World).w) = ConnClose(World)

\* C7 happens: close() on a transport that was opened, closed, opened again and
\* is closed already
C7_Witness ==
    /\ result.op = "close"
    /\ result.ok
    /\ ~result.pre.conn.present
    /\ life.reopened

\* C8: on a closed transport write, write_bare, read and read_until raise
\* SerialConnectionError 'No Serial connection open' whatever they are given,
\* and nothing is written to or read from the serial object.
C8_ClosedRefusesIo ==
    (/\ result.op \in { "write", "write_bare", "read", "read_until" }
     /\ ~result.pre.conn.present) =>
        /\ ~result.ok
        /\ result.type = "SerialConnectionError"
        /\ result.msg = NoOpenMsg
        /\ log = <<>>
        /\ inbuf = result.pre.inbuf
        /\ conn = NoConn

\* C8 happens: write() of data holding the newline on a closed transport
C8_Witness ==
    /\ result.op = "write"
    /\ ~result.pre.conn.present
    /\ Contains(result.arg, newline)
    /\ result.type = "SerialConnectionError"

\* C9: the transport is open exactly when the last open or close that took
\* effect was an open, closes of the recovery included; open on a closed
\* transport succeeds whenever the device can be opened, and the only reason it
\* fails is a device that cannot be opened, however often the transport has been
\* opened and closed before.
C9_Reusable ==
    /\ (life.last = "open") <=> IsOpen
    /\ life.last # "open" => conn = NoConn
    /\ (result.op = "connect" /\ ~WasOpen /\ result.pre.dev) =>
          /\ result.ok
          /\ IsOpen
          /\ fd = "alive"
    /\ (Len(log) > 0 /\ log[Len(log)].op = "start") =>
          \/ pc = "read" /\ cur.phase = 2 /\ IsOpen
          \/ pc = "idle" /\ result.msg = CouldNotOpenMsg /\ ~result.pre.dev
    /\ result.msg = CouldNotOpenMsg => ~result.pre.dev /\ conn = NoConn

\* C9 happens: connect() succeeded on a transport that had been opened and
\* closed before
C9_Witness ==
    /\ result.op = "connect"
    /\ result.ok
    /\ life.reopened
    /\ IsOpen

\* C10: write(data) on an open transport with the configured newline inside
\* data raises RuntimeError, and nothing has been written to or read from the
\* serial object: the trace of the call is empty and the pending input is
\* untouched.
C10_NewlineInData ==
    (/\ result.op = "write"
     /\ result.pre.conn.present
     /\ Contains(result.arg, newline)) =>
        /\ ~result.ok
        /\ result.type = "RuntimeError"
        /\ log = <<>>
        /\ inbuf = result.pre.inbuf
        /\ conn = result.pre.conn
        /\ fd = result.pre.fd

\* C10 happens: such a write() on a live session with input pending
C10_Witness ==
    /\ result.op = "write"
    /\ WasOpen
    /\ result.pre.fd = "alive"
    /\ result.pre.inbuf # <<>>
    /\ Contains(result.arg, newline)
    /\ result.type = "RuntimeError"

\* what the last call took out of the incoming buffer
Consumed == SubSeq(result.pre.inbuf, 1, Len(result.pre.inbuf) - Len(inbuf))

\* C11: read_until(expected) on an open transport with a live handle returns
\* what it read when that ends with expected, and raises SerialNoMatchError
\* otherwise; the error holds expected, the timeout of the settings and the text
\* that was read, which is then everything that had arrived.
C11_ReadUntilNoMatch ==
    (/\ result.op = "read_until"
     /\ WasOpen
     /\ result.pre.fd = "alive") =>
        /\ result.pre.inbuf = Consumed \o inbuf
        /\ result.ok <=> EndsWith(Consumed, result.arg)
        /\ result.ok =>
              /\ result.val = Consumed
              /\ Find(Consumed, result.arg) = Len(Consumed) - Len(result.arg) + 1
        /\ ~result.ok =>
              /\ result.type = "SerialNoMatchError"
              /\ result.val.expected = result.arg
              /\ result.val.timeout = defaults["timeout"]
              /\ result.val.output = Consumed
              /\ Consumed = result.pre.inbuf
              /\ result.msg = NoMatchMsg(result.arg, defaults["timeout"], Consumed)

\* C11 happens: a read_until timed out with text read, under a timeout given to
\* the constructor
C11_Witness ==
    /\ result.op = "read_until"
    /\ WasOpen
    /\ result.type = "SerialNoMatchError"
    /\ result.val.output # <<>>
    /\ result.val.timeout = PFloat(1)

----------------------------------------------------------------------------
(* Settings claims                                                          *)

\* the keys of the dictionary given to the last set_default_parameters
GivenKeys == { result.arg[i].key : i \in 1..Len(result.arg) }

\* the value given for key k
Given(k) == (CHOOSE i \in 1..Len(result.arg) : result.arg[i].key = k)

\* C12: set_default_parameters never adds a key and never changes the type of
\* a setting; a key that is not among the given ones keeps its value; when the
\* call returns, every given key that is a setting holds the given value
\* converted to the setting's type, the value returned is the settings as they
\* were before the call, and the settings that differ from the returned ones are
\* the given, known keys whose converted value differs from the old one.
C12_SetDefaultParameters ==
    result.op = "set_default_parameters" =>
        LET before == result.pre.defaults
            known == GivenKeys \cap DOMAIN before
        IN  /\ DOMAIN defaults = DOMAIN before
            /\ DOMAIN defaults = DOMAIN DEFAULT_SETTINGS
            /\ \A k \in DOMAIN before :
                  /\ defaults[k].kind = before[k].kind
                  /\ k \notin GivenKeys => defaults[k] = before[k]
            /\ result.ok =>
                  /\ result.val = before
                  /\ \A k \in known :
                        /\ Coerce(before[k].kind, result.arg[Given(k)].value).ok
                        /\ defaults[k] =
                              Coerce(before[k].kind, result.arg[Given(k)].value).val
                  /\ { k \in DOMAIN defaults : defaults[k] # result.val[k] }
                        = { k \in known : defaults[k] # before[k] }
            /\ ~result.ok =>
                  \E k \in known :
                     ~Coerce(before[k].kind, result.arg[Given(k)].value).ok

\* C12 happens: text and an unknown key were given after the settings had been
\* changed before; the number in the text is stored as an int
C12_Witness ==
    /\ result.op = "set_default_parameters"
    /\ result.ok
    /\ result.pre.defaults["baudrate"] = PInt(9600)
    /\ result.pre.defaults["write_timeout"] = PFloat(200)
    /\ Len(result.arg) = 2
    /\ result.arg[1].value = PStr("115200")
    /\ defaults["baudrate"] = PInt(115200)
    /\ defaults["timeout"] = PFloat(10)
    /\ result.val["baudrate"] = PInt(9600)

----------------------------------------------------------------------------
(* Sanitizer claims                                                         *)

IsPayloadLine(e) == e.op = "line"

\* the payload lines of the raw response, as the device sent them
SentPayload == SelectSeq(log, IsPayloadLine)

\* the raw response has the echo of the command and ends with a prompt line
Framed ==
    /\ Len(log) > 0
    /\ log[Len(log)].op = "prompt"
    /\ \E i \in 1..Len(log) : log[i].op = "echo"

\* the command as the echo step compares it
IssuedCommand == RStripChars(cur.command, Range(response_return))

BeforeEcho == SplitResponseToLines(StripWhitespaces(StripPrompt(result.arg)))

\* C14, as the specification states it: the echo step drops the first remaining
\* line exactly when that line is the issued command, and drops nothing when the
\* command is only a later line or a part of a line.  The code drops the first
\* line whenever any line is the command.
C14_EchoOnlyFirstLine ==
    result.op = "_sanitize_response" =>
        result.val = IF BeforeEcho[1] = IssuedCommand
                     THEN Join(Tail(BeforeEcho), response_return)
                     ELSE Join(BeforeEcho, response_return)

\* the raw response is a payload the sanitizer has nothing to do with: no blank
\* line, no blanks around a line, no prompt in the last line, no echo in front
AlreadySanitized ==
    LET lines == Split(result.arg, response_return)
    IN  \/ result.arg = <<>>
        \/ /\ \A i \in 1..Len(lines) : lines[i] # <<>> /\ lines[i] = Strip(lines[i])
           /\ ~Contains(lines[Len(lines)], <<PROMPT>>)
           /\ lines[1] # IssuedCommand

\* C15, as the specification states it: a payload with no prompt line, no echo
\* and no blank lines comes back unchanged, whatever the command.  The code
\* drops the first line of such a payload when a later line is the command.
C15_SanitizeIdempotent ==
    (result.op = "_sanitize_response" /\ AlreadySanitized) =>
        result.val = result.arg

\* the one line of the payload that was validated
OneLine == log[1]

\* C16: validate on a one-line payload raises GenericError exactly when the line
\* is '*E', three digits, ':', whitespace and text, FatalError exactly when it
\* starts with '*FATAL' and later holds 'E', three digits, ':', whitespace and
\* text, and nothing otherwise; the error carries the code and the reason
C16_ValidateOneLine ==
    (result.op = "validate" /\ Len(log) = 1) =>
        /\ result.type = "GenericError" <=> OneLine.op = "generic"
        /\ result.type = "FatalError" <=> OneLine.op = "fatal"
        /\ result.ok <=> OneLine.op = "other"
        /\ ~result.ok =>
              /\ result.val = [code |-> OneLine.code, reason |-> OneLine.reason]
              /\ result.msg = CommandLineMsg(OneLine.code, OneLine.reason)

C16_Witness ==
    /\ result.op = "validate"
    /\ Len(log) = 1
    /\ OneLine.data = <<"*", "FATAL", SP, "E", "E", "0", "0", "1", ":", SP, "Error text">>
    /\ result.type = "FatalError"
    /\ result.val = [code |-> <<"0", "0", "1">>, reason |-> <<"Error text">>]

\* the kinds of error the lines of the validated payload have the form of
ErrorKinds == { log[i].op : i \in 1..Len(log) } \ { "other" }

ErrorOf(kind) == IF kind = "generic" THEN "GenericError" ELSE "FatalError"

\* C17: validate on a payload of several lines raises the typed error whenever
\* any line begins with the generic or the fatal marker, wherever the line is
C17_ValidateAnyLine ==
    (result.op = "validate" /\ Len(log) >= 2 /\ ErrorKinds # {}) =>
        \E kind \in ErrorKinds : result.type = ErrorOf(kind)

\* the reads up to the prompt that returned what they read
PromptReads ==
    { i \in 1..Len(log) :
         /\ log[i].op = "read_until"
         /\ log[i].data = <<PROMPT>>
         /\ EndsWith(log[i].out, <<PROMPT>>) }

LastOf(S) == CHOOSE i \in S : \A j \in S : j <= i

\* the command of the last send_command of the call
LastSent == log[LastOf({ i \in 1..Len(log) : log[i].op = "send" })].data

\* the sanitized payload of the last raw response read up to the prompt
ReadPayload == SanitizeResponse(LastSent, log[LastOf(PromptReads)].out)

MatchesError(payload) == MatchesGeneric(payload) \/ MatchesFatal(payload)

\* the methods that hand the response of send_command to their caller
ResponseApis == { "help", "system", "health", "limits", "cef", "crf" }

\* C18: send_command returns the sanitized payload unchanged when the payload
\* matches neither error pattern, and never returns a payload that matches one:
\* it raises the typed error instead
C18_SendCommandReturns ==
    /\ pc \in { "sleep", "return" } =>
          /\ PromptReads # {}
          /\ cur.response = ReadPayload
          /\ ~MatchesError(cur.response)
    /\ (Finished /\ result.ok /\ cur.api \in ResponseApis) =>
          /\ result.val = ReadPayload
          /\ ~MatchesError(result.val)
    /\ (Finished /\ PromptReads # {} /\ MatchesError(ReadPayload)) =>
          /\ result.type = Validate(ReadPayload).type
          /\ Count("return") = 0

C18_Witness ==
    /\ Finished
    /\ cur.api = "system"
    /\ result.ok
    /\ PromptReads # {}
    /\ result.val = ReadPayload
    /\ result.val = InfoLine

\* the device answered the command with this line before the prompt
AnsweredWith(line) ==
    \E i \in PromptReads : Contains(log[i].out, line)

\* C19: when the device answers a state query with an error it reports, the
\* GenericError or FatalError is raised before anything is parsed and the port
\* registry is as it was before the query
C19_StateErrorKeepsRegistry ==
    /\ (Finished /\ cur.api = "show_state" /\ AnsweredWith(GenericErrorLine)) =>
          /\ result.type = "GenericError"
          /\ result.val.code = <<"4", "1", "0">>
          /\ Count("return") = 0
          /\ ports = cur.before
    /\ (Finished /\ cur.api = "show_state" /\ AnsweredWith(FatalErrorLine)) =>
          /\ result.type = "FatalError"
          /\ result.val.code = <<"0", "0", "1">>
          /\ Count("return") = 0
          /\ ports = cur.before

C19_Witness ==
    /\ Finished
    /\ cur.api = "show_state"
    /\ AnsweredWith(FatalErrorLine)
    /\ result.type = "FatalError"
    /\ ports # <<>>
    /\ ports = cur.before

\* the rows of the response a state query returned with
StateRows == ParserRows(ReadPayload)

RowIndex(values) == IntOf(values[1][1])

\* the port a row describes: its values converted as the attributes of Port are
RowPort(values) ==
    [index |-> RowIndex(values),
     current_ma |-> IntOf(values[2][1]),
     flags |-> ProcessFlags(values[3]).flags,
     profile_id |-> IntOf(values[4][1]),
     time_charging |-> IntOf(values[5][1]),
     time_charged |-> IF values[6] = <<"x">> THEN NotCharged
                      ELSE [x |-> FALSE, secs |-> IntOf(values[6][1])],
     energy |-> HundredthsOf(values[7][1])]

PortsWith(plist, idx) == { i \in 1..Len(plist) : plist[i].index = idx }

RowIndexes == { RowIndex(StateRows[k]) : k \in 1..Len(StateRows) }

\* C20: after show_state(port_index) has returned, the registry holds for every
\* row of the response one port with the row's index and the row's values (a
\* port that was there is updated where it is, one that was not is added), the
\* other ports are untouched, and what is returned renders the port asked for,
\* or the whole registry in the order of the indexes when none was asked for
C20_ShowStateRegistry ==
    (Finished /\ cur.api = "show_state" /\ result.ok) =>
        /\ PromptReads # {}
        /\ \A k \in 1..Len(StateRows) :
               \E i \in 1..Len(ports) :
                  /\ ports[i] = RowPort(StateRows[k])
                  /\ PortsWith(ports, ports[i].index) = { i }
        /\ Len(ports) >= Len(cur.before)
        /\ \A i \in 1..Len(cur.before) :
               /\ ports[i].index = cur.before[i].index
               /\ ports[i].index \notin RowIndexes => ports[i] = cur.before[i]
        /\ \A i \in (Len(cur.before) + 1)..Len(ports) :
               /\ ports[i].index \in RowIndexes
               /\ PortsWith(cur.before, ports[i].index) = {}
        /\ IF cur.port = "None"
           THEN /\ Len(result.rendered) = Len(ports)
                /\ Range(result.rendered) = Range(ports)
                /\ \A i, j \in 1..Len(result.rendered) :
                       i < j => result.rendered[i].index < result.rendered[j].index
           ELSE /\ result.rendered = <<RowPort(StateRows[1])>>
                /\ RowIndex(StateRows[1]) = IntOf(cur.port)

\* a query for port 1 returned while the registry held ports 2 and 1, in that
\* order, with other values for port 1
C20_Witness ==
    /\ Finished
    /\ cur.api = "show_state"
    /\ result.ok
    /\ cur.port = "1"
    /\ Len(cur.before) = 2
    /\ cur.before[1].index = 2
    /\ cur.before[2] # ports[2]
    /\ ports[2] = RowPort(StateRows[1])
    /\ result.rendered = <<ports[2]>>

\* C21: after any sequence of new_port, update_port and remove_port calls the
\* registry holds no two ports with the same index
C21_UniqueIndexes ==
    \A i, j \in 1..Len(ports) : ports[i].index = ports[j].index => i = j

\* the index a hub call was made with is the index of a port registered before
WasRegistered ==
    /\ IntValue(result.arg[1]).ok
    /\ \E i \in 1..Len(cur.before) : cur.before[i].index = IntValue(result.arg[1]).num

\* C22: update_port on a registered index with no attributes leaves every port
\* as it was and warns instead of raising; update_port on an index that is not
\* registered raises IndexError and leaves the registry as it was
C22_UpdatePortNoop ==
    /\ (result.op = "update_port" /\ result.arg[2] = <<>> /\ WasRegistered) =>
          /\ result.ok
          /\ ports = cur.before
          /\ Len(log) = 1 /\ log[1].op = "warn"
    /\ (result.op = "update_port" /\ IntValue(result.arg[1]).ok /\ ~WasRegistered) =>
          /\ result.type = "IndexError"
          /\ ports = cur.before
          /\ log = <<>>

\* C22 happens: update_port(1) on a registry of two ports whose port 1 has
\* flags of its own
C22_Witness ==
    /\ result.op = "update_port"
    /\ result.arg = <<PInt(1), <<>>>>
    /\ result.ok
    /\ Len(ports) = 2
    /\ ports = cur.before
    /\ \E i \in 1..2 : ports[i].index = 1 /\ ports[i].flags # DefaultFlags
    /\ Len(log) = 1

\* the flag is the port's mode or state or one of its system flags
HasFlag(port, flag) ==
    \/ flag = <<port.flags.mode>>
    \/ flag = <<port.flags.state>>
    \/ \E i \in 1..Len(port.flags.system) : flag = <<port.flags.system[i]>>

\* C23: search_by_flag(f) returns exactly the registered ports for which f is
\* the mode, the state or one of the system flags, ports with more than one
\* system flag included
C23_SearchByFlag ==
    result.op = "search_by_flag" =>
        LET Wanted(port) == HasFlag(port, result.arg[1])
        IN  result.val = SelectSeq(ports, Wanted)

\* the integer a value stands for when it is an integer or a decimal string
Denotes(v, n) ==
    \/ v.kind = "int" /\ v.num = n
    \/ v.kind = "str" /\ v.text \in DOMAIN DecimalText /\ DecimalText[v.text] = n

\* a value int() cannot take
NotCoercible(v) ==
    \/ v.kind \in { "list", "none" }
    \/ v.kind = "str" /\ v.text \notin DOMAIN DecimalText

\* C28: Port(n).index is n for every non-negative integer n given as an integer
\* or as its decimal string; for a negative input and for an input int() cannot
\* take the construction raises ValueError and makes no Port
C28_PortIndex ==
    result.op = "Port" =>
        LET v == result.arg[1]
        IN  /\ \A n \in 0..1000 :
                  Denotes(v, n) => result.ok /\ result.val[1].index = n
            /\ (Denotes(v, 0 - 1) \/ NotCoercible(v)) =>
                  /\ result.type = "ValueError"
                  /\ result.val = <<>>

\* C28 happens: Port('1000') was made
C28_Witness ==
    /\ result.op = "Port"
    /\ result.arg = <<PStr("1000")>>
    /\ result.ok
    /\ result.val[1] = NewPortRecord(1000)

\* C29: after any assignments to current_ma, profile_id, time_charging,
\* time_charged and energy every number the Port holds is non-negative: a
\* negative or non-numeric value is refused with ValueError when it is assigned
\* (time_charged takes the text 'x' besides)
C29_NumericNonNegative ==
    pc = "port" =>
        /\ ports[1].current_ma >= 0
        /\ ports[1].profile_id >= 0
        /\ ports[1].time_charging >= 0
        /\ ports[1].time_charged.secs >= 0
        /\ ports[1].energy >= 0

\* the lines of the parsed payload that are no well-formed rows
BadLines == { k \in 1..Len(log) : log[k].op # "row" }

\* the first of them
FirstBad == CHOOSE k \in BadLines : \A j \in BadLines : k <= j

\* how many lines come before the first line that is no row
GoodPrefix == IF BadLines = {} THEN Len(log) ELSE FirstBad - 1

\* the pair yielded for line k has the first field as its index and the other
\* fields under the keys in their order
PairOfLine(k) ==
    /\ result.val[k].index = log[k].fields[1]
    /\ result.val[k].current_ma = log[k].fields[2]
    /\ result.val[k].profile_id = log[k].fields[4]
    /\ result.val[k].time_charging = log[k].fields[5]
    /\ result.val[k].time_charged = log[k].fields[6]
    /\ result.val[k].energy = log[k].fields[7]

\* C24: process yields for each line in order the pair of the first field and
\* the map of the six other stripped fields onto the keys; a line whose number
\* of other fields is not six, the one line of an empty payload included,
\* raises a ValueError that names the row
C24_ProcessRows ==
    result.op = "process" =>
        /\ Len(result.val) = GoodPrefix
        /\ \A k \in 1..GoodPrefix : PairOfLine(k)
        /\ result.ok <=> (BadLines = {} /\ log # <<>>)
        /\ log = <<>> =>
              /\ result.type = "ValueError"
              /\ result.msg = RowFormatMsg(<<<<>>>>)
        /\ (BadLines # {} /\ log[FirstBad].op = "count") =>
              /\ result.type = "ValueError"
              /\ result.msg = RowFormatMsg(log[FirstBad].fields)

\* C24 happens: a row was yielded before the line with a field too many raised
C24_Witness ==
    /\ result.op = "process"
    /\ Len(log) = 2
    /\ log[1].op = "row"
    /\ Len(log[2].fields) = 8
    /\ Len(result.val) = 1
    /\ result.type = "ValueError"

\* C25: the tokens of the flags field are reversed before PortFlags is made:
\* the mode is the last token, the state the one before it and the system flags
\* are the others; 'R A S' gives mode S, state A, system R and 'D O' gives mode
\* O, state D and no system flag
C25_FlagsReversed ==
    (result.op = "process" /\ BadLines = {}) =>
        /\ Len(result.val) = Len(log)
        /\ \A k \in 1..Len(log) :
              LET tokens == log[k].tokens
                  n == Len(tokens)
                  flags == result.val[k].flags
              IN  /\ flags.mode = tokens[n]
                  /\ flags.state = tokens[n - 1]
                  /\ Len(flags.system) = n - 2
                  /\ Range(flags.system) = { tokens[i] : i \in 1..(n - 2) }
                  /\ tokens = <<"R", "A", "S">> =>
                        flags = [mode |-> "S", state |-> "A", system |-> <<"R">>]
                  /\ tokens = <<"D", "O">> =>
                        flags = [mode |-> "O", state |-> "D", system |-> <<>>]

\* C25 happens: rows with 'T R A S' and with 'D O' were parsed
C25_Witness ==
    /\ result.op = "process"
    /\ result.ok
    /\ Len(log) = 2
    /\ log[1].tokens = <<"T", "R", "A", "S">>
    /\ log[2].tokens = <<"D", "O">>
    /\ result.val[1].flags = [mode |-> "S", state |-> "A", system |-> <<"R", "T">>]

\* C26: a row whose flags field is malformed (fewer than two tokens, or a token
\* that is no mode, state or system flag where one is due) makes the parse fail
\* with a ValueError
C26_BadFlagsValueError ==
    (result.op = "process" /\ BadLines # {} /\ log[FirstBad].op = "flags") =>
        result.type = "ValueError"

\* the mode names, whatever the letter case, with their single-letter codes
ModeCode(token) ==
    CASE token \in { "OFF", "off", "Off" } -> "o"
      [] token \in { "SYNC", "sync", "Sync" } -> "s"
      [] token \in { "BIASSED", "BIASED" } -> "b"
      [] token \in { "CHARGE", "CHARGED" } -> "c"
      [] OTHER -> ""

\* 'mode {m}' or 'mode {m} {port}'
ModeCommand(m, port) ==
    IF port = "None" THEN <<"mode", SP, m>> ELSE <<"mode", SP, m, SP, port>>

\* C27: mode(name, port) turns every known mode name, in any letter case, into
\* its single-letter code and lower-cases any other token as it is, and emits
\* 'mode {m}' without a port and 'mode {m} {port}' with one: OFF, SYNC, BIASED
\* and CHARGED all give a single-letter mode command
C27_ModeCommand ==
    result.op = "mode" =>
        LET name == result.arg[1]
            port == result.arg[2]
        IN  IF ModeCode(name) # ""
            THEN result.val = ModeCommand(ModeCode(name), port)
            ELSE result.val = ModeCommand(Lower(name), port)

\* C30: two PortFlags are equal exactly when their modes are the same, their
\* states are the same and their system flags are the same set, in whatever
\* order these were given
C30_FlagsEquality ==
    result.op = "__eq__" =>
        LET a == result.arg[1]
            b == result.arg[2]
        IN  result.val <=> /\ a.mode = b.mode
                           /\ a.state = b.state
                           /\ Range(a.system) = Range(b.system)

\* what the claim calls a value of the vocabulary of a sub-field: a text that
\* is one of the mode letters, one of the state letters, or flags that are all
\* system letters (one text of such letters, or several texts of one letter)
InVocabulary(field, v) ==
    CASE field = "mode" -> v.kind = "str" /\ v.text \in ModeValues
      [] field = "state" -> v.kind = "str" /\ v.text \in StateValues
      [] OTHER ->
            \/ v.kind = "str" /\ \A i \in 1..Len(Chars(v.text)) :
                                     Chars(v.text)[i] \in SystemValues
            \/ v.kind = "tuple" /\ \A i \in 1..Len(v.items) : v.items[i] \in SystemValues
            \/ v.kind = "list"

ValidFlags(flags) ==
    /\ flags.mode \in ModeValues
    /\ flags.state \in StateValues
    /\ \A i \in 1..Len(flags.system) : flags.system[i] \in SystemValues

\* C31: every PortFlags that exists holds a mode from {O,S,B,P,I,C,F}, a state
\* from {A,D} and system flags from {T,E,R,r} only; a construction or an
\* assignment with a value outside the vocabulary of its sub-field raises
\* ValueError and leaves the stored value in place.
C31_FlagsVocabulary ==
    /\ ValidFlags(ports[1].flags)
    /\ result.op = "PortFlags" =>
          /\ result.ok => ValidFlags(result.val[1])
          /\ (\E k \in 1..3 : ~InVocabulary(<<"mode", "state", "system">>[k], result.arg[k]))
                => ~result.ok /\ result.type = "ValueError"
    /\ (result.op = "setflag" /\ ~InVocabulary(result.arg[1], result.arg[2]))
          => /\ ~result.ok
             /\ result.type = "ValueError"
             /\ ports = cur.before

\* the part of C31 that holds: whatever is given, the stored flags stay in the
\* vocabulary and a refused assignment leaves them as they were
C31_StoredFlagsValid ==
    /\ ValidFlags(ports[1].flags)
    /\ (result.op = "PortFlags" /\ result.ok) => ValidFlags(result.val[1])
    /\ (result.op = "setflag" /\ ~result.ok) => ports = cur.before

\* C32: two Ports are equal exactly when their indexes are equal, whatever
\* their other attributes hold, and a Port is never equal to a value that is
\* not a Port.
C32_PortEquality ==
    result.op = "Port.__eq__" =>
        LET first == result.arg[1]
            second == result.arg[2]
        IN  /\ result.val[1] = (second.kind = "port" /\ first.index = second.port.index)
            /\ result.val[2] = ~result.val[1]

\* two Ports with one index and different energy have been found equal
C32_Witness ==
    /\ result.op = "Port.__eq__"
    /\ result.arg[2].kind = "port"
    /\ result.arg[1] # result.arg[2].port
    /\ result.val[1]

\* C33: the serial speed is accepted only as one of the names 'slow' (115200)
\* and 'fast' (1000000); any other value, a rate or a value that is no text
\* among them, is refused with ValueError at construction and at assignment,
\* before a connection object is made or an open attempted.
C33_SerialSpeedNames ==
    result.op \in { "CambrionixCli", "serial_speed" } =>
        LET speed == result.arg[1]
            before == cur.before[1]
        IN  IF speed \in { PStr("slow"), PStr("fast") }
            THEN /\ result.ok
                 /\ serial_speed = IF speed = PStr("slow") THEN 115200 ELSE 1000000
                 /\ result.op = "CambrionixCli" =>
                        defaults["baudrate"] = PInt(serial_speed) /\ conn = NoConn
            ELSE /\ ~result.ok
                 /\ result.type = "ValueError"
                 /\ serial_speed = before.serial_speed
                 /\ defaults = before.defaults
                 /\ conn = result.pre.conn
                 /\ log = <<>>

\* the rate 1000000 has been refused as a serial speed of a CLI made as 'fast'
C33_Witness ==
    /\ result.op \in { "CambrionixCli", "serial_speed" }
    /\ result.arg[1] = PInt(FAST)
    /\ ~result.ok
    /\ serial_speed = FAST

\* C34: a system snapshot takes a group exactly when it is '-' or one of the
\* fifteen letters A to O, and raises ValueError for anything else.
C34_GroupLetters ==
    result.op \in { "System", "group" } =>
        LET value == result.arg[1]
            Letters == { "A", "B", "C", "D", "E", "F", "G", "H", "I", "J", "K", "L",
                         "M", "N", "O" }
        IN  IF value.kind = "str" /\ value.text \in Letters \cup { "-" }
            THEN result.ok /\ group = value.text
            ELSE ~result.ok /\ result.type = "ValueError"

\* C35: whenever the dispatcher hands a response back to the method that was
\* called, the response is the validated answer to the command this call
\* built, after a recovery as well as without one.
C35_ReturnsOwnResponse ==
    (Finished /\ Count("return") > 0) =>
        /\ PromptReads # {}
        /\ LastSent = cur.command
        /\ cur.response = SanitizeResponse(cur.command, log[LastOf(PromptReads)].out)
        /\ ~MatchesError(cur.response)
        /\ (result.ok /\ cur.api \in ResponseApis) => result.val = cur.response

\* the part of C35 that holds: what is handed back is the validated answer to
\* the last text sent, which is the call's command when nothing was recovered
C35_ReturnsLastResponse ==
    (Finished /\ Count("return") > 0) =>
        /\ PromptReads # {}
        /\ cur.response = ReadPayload
        /\ ~MatchesError(cur.response)
        /\ Count("recover") = 0 => LastSent = cur.command
        /\ Count("recover") > 0 => LastSent = <<>>

\* C36: a state query that fails with a parse or validation error leaves the
\* registry exactly as it was: no port created and no attribute changed by the
\* rows before the failing one.
C36_FailedQueryKeepsRegistry ==
    (result.op = "_set_state" /\ ~result.ok) => ports = cur.before

\* the indexes the lines of the last response begin with
ReportedIndexes ==
    { IntOf(log[k].fields[1][1]) : k \in { n \in 1..Len(log) : log[n].fields[1] # <<>> } }

\* C38: a state query never removes a port: every port registered before it is
\* still registered, at its place, and a port the response does not report
\* keeps the values it had; only remove_port takes ports out.
C38_QueriesOnlyGrow ==
    /\ result.op = "_set_state" =>
          /\ Len(ports) >= Len(cur.before)
          /\ \A i \in 1..Len(cur.before) :
                /\ ports[i].index = cur.before[i].index
                /\ ports[i].index \notin ReportedIndexes => ports[i] = cur.before[i]
    /\ Len(ports) < Len(cur.before) => result.op = "remove_port"

\* a query whose response reports port 1 alone returned while port 2 was
\* registered with values a query had given it
C38_Witness ==
    /\ result.op = "_set_state"
    /\ result.ok
    /\ ReportedIndexes = { 1 }
    /\ \E i \in 1..Len(cur.before) :
          /\ cur.before[i].index = 2
          /\ cur.before[i] # NewPortRecord(2)
          /\ ports[i] = cur.before[i]
    /\ \E i \in 1..Len(ports) : ports[i].index = 1 /\ ports # cur.before

\* the step appended a write to the trace
Wrote == \E i \in 1..Len(log') : log'[i].op = "write" /\ (i > Len(log) \/ log[i] # log'[i])

\* one step of the dispatcher seen by C37
ClosedStaysClosed ==
    \* the reopen of a recovery fails: the call ends with that error, closed
    /\ (pc = "start" /\ pc' # pc /\ ~devPresent) =>
          /\ pc' = "idle"
          /\ ~result'.ok
          /\ result'.type = "SerialConnectionError"
          /\ result'.msg = CouldNotOpenMsg
          /\ conn' = NoConn
          /\ Count("write")' = Count("write")
    \* a command on a transport that is not open fails and writes nothing
    /\ (pc = "read" /\ pc' # pc /\ ~IsOpen) =>
          /\ pc' = "idle"
          /\ ~result'.ok
          /\ result'.type = "SerialConnectionError"
          /\ result'.msg = NoOpenMsg
          /\ conn' = conn
          /\ log' = <<Ev("send", Sending, 0)>>
    \* a transport that is not open becomes open by connect() alone, or by the
    \* reopen of a recovery that began while it was open
    /\ (~IsOpen /\ IsOpen') =>
          \/ result'.op = "connect" /\ result'.ok
          \/ pc = "start" /\ Count("recover") = 1 /\ log[1].op = "send"
                /\ log[2].op \in { "read_all", "write", "read_until" }
    \* nothing is written on a transport that is not open
    /\ Wrote => IsOpen

\* C37: when the reopen of a recovery fails, the error propagates and the
\* transport is left closed: every command after it fails with 'No Serial
\* connection open' until connect() succeeds, and no command is written on a
\* transport that is not open.
C37_FailedReopenLeavesClosed == [][ClosedStaysClosed]_vars

\* a call ended with the error of the reopen of its recovery and left the
\* transport closed
C37_Witness ==
    /\ Finished
    /\ Len(log) > 0
    /\ log[Len(log)].op = "start"
    /\ result.msg = CouldNotOpenMsg
    /\ conn = NoConn

\* a command failed with 'No Serial connection open' on the transport a
\* recovery or disconnect() had left closed
C37_LaterCommandRefused ==
    /\ Finished
    /\ life.last = "close"
    /\ result.msg = NoOpenMsg
    /\ log = <<Ev("send", cur.command, 0)>>

\* the sends of the call, as positions in the trace
SendAt == { i \in 1..Len(log) : log[i].op = "send" }

\* the I/O a send did: what the trace holds between its step and the next step
\* of the wrapper
SegmentOf(s) ==
    LET later == { j \in (s + 1)..Len(log) : IsWrapperStep(log[j]) }
        end == IF later = {} THEN Len(log) + 1
               ELSE CHOOSE j \in later : \A k \in later : j <= k
    IN  SubSeq(log, s + 1, end - 1)

\* the I/O of one send of a command is the beginning of: read_all, write of the
\* command and the terminator, read_until the terminator, read_until the prompt
InOrder(command, seg) ==
    /\ Len(seg) <= 4
    /\ Len(seg) >= 1 => seg[1].op = "read_all"
    /\ Len(seg) >= 2 => /\ seg[1].done
                        /\ seg[2].op = "write"
                        /\ seg[2].data = command \o newline
    /\ Len(seg) >= 3 => /\ seg[2].done
                        /\ seg[3].op = "read_until"
                        /\ seg[3].data = newline
    /\ Len(seg) >= 4 => /\ seg[3].done
                        /\ EndsWith(seg[3].out, newline)
                        /\ seg[4].op = "read_until"
                        /\ seg[4].data = <<PROMPT>>

\* the send went through its last read, or one of its steps failed
Over(seg) ==
    \/ Len(seg) = 4
    \/ Len(seg) = 0
    \/ ~seg[Len(seg)].done
    \/ seg[Len(seg)].op = "read_until" /\ ~EndsWith(seg[Len(seg)].out, seg[Len(seg)].data)

C40_NoMatchTimeout ==
    (result.op = "read_until" /\ result.type = "SerialNoMatchError") =>
        result.val.timeout = result.pre.conn.timeout

\* the part of C40 that holds: the error carries the timeout the settings hold
\* when the read is made, and the settings calls leave the open connection
\* with the timeout it was opened with
C40_SettingsTimeout ==
    /\ (result.op = "read_until" /\ result.type = "SerialNoMatchError") =>
          result.val.timeout = defaults["timeout"]
    /\ result.op \in { "set_default_parameters", "reset_default_parameters" } =>
          conn = result.pre.conn
    /\ (result.op = "open" /\ result.ok) => conn.timeout = defaults["timeout"]

====
